---- MODULE Spec2Model ----
(***************************************************************************)
(* A model of the bounded verifier: AST -> SSA (convert_to_ssa), bounded   *)
(* loop unrolling (unroll_loops), the three SSA optimizations              *)
(* (optimize_ssa) and the two SMT queries (check_assertion,                *)
(* check_equivalence).  Trees are records tagged by the field k, which     *)
(* holds the name of the Python class of the node.  Python lists are       *)
(* sequences, a Python dict is a sequence of entries in insertion order.   *)
(***************************************************************************)
EXTENDS Integers, Sequences, FiniteSets, TLC

(***************************************************************************)
(* AST nodes (parser.py).  A missing else branch (None) and an empty list  *)
(* are both falsy in every test the code makes; both are << >> here.       *)
(***************************************************************************)
Variable(name) == [k |-> "Variable", name |-> name]

Constant(value) == [k |-> "Constant", value |-> value]

BinaryOp(left, op, right) == [k |-> "BinaryOp", left |-> left, op |-> op, right |-> right]

UnaryOp(op, expr) == [k |-> "UnaryOp", op |-> op, expr |-> expr]

VarDecl(name, value) == [k |-> "VarDecl", name |-> name, value |-> value]

Assignment(name, value) == [k |-> "Assignment", name |-> name, value |-> value]

While(condition, body) == [k |-> "While", condition |-> condition, body |-> body]

For(init, condition, update, body) ==
    [k |-> "For", init |-> init, condition |-> condition, update |-> update,
     body |-> body]

If(condition, true_branch, false_branch) ==
    [k |-> "If", condition |-> condition, true_branch |-> true_branch,
     false_branch |-> false_branch]

AssertStmt(condition) == [k |-> "Assert", condition |-> condition]

(***************************************************************************)
(* SSA nodes (ssa.py).  An SSAConstant holds a Python int, bool or float   *)
(* (a float comes from folding "/").  A bool is an int in Python (True is  *)
(* 1), and the only floats kept here are whole, so the value is an integer *)
(* with the Python type beside it.  A Python list standing where a         *)
(* statement is expected is PyList.                                        *)
(***************************************************************************)
SSAVariable(name, version) == [k |-> "SSAVariable", name |-> name, version |-> version]

PyConstant(ty, value) == [k |-> "SSAConstant", ty |-> ty, value |-> value]

SSAConstant(value) == PyConstant("int", value)

PyBool(b) == PyConstant("bool", IF b THEN 1 ELSE 0)

PyList(items) == [k |-> "list", items |-> items]

SSABinaryOp(left, op, right) ==
    [k |-> "SSABinaryOp", left |-> left, op |-> op, right |-> right]

SSAUnaryOp(op, expr) == [k |-> "SSAUnaryOp", op |-> op, expr |-> expr]

SSAVarDecl(name, version, value) ==
    [k |-> "SSAVarDecl", name |-> name, version |-> version, value |-> value]

SSAAssignment(name, version, value) ==
    [k |-> "SSAAssignment", name |-> name, version |-> version, value |-> value]

SSAPhiFunction(name, version, sources) ==
    [k |-> "SSAPhiFunction", name |-> name, version |-> version, sources |-> sources]

SSAWhile(condition, body, phi_functions) ==
    [k |-> "SSAWhile", condition |-> condition, body |-> body,
     phi_functions |-> phi_functions]

SSAIf(condition, true_branch, false_branch, phi_functions) ==
    [k |-> "SSAIf", condition |-> condition, true_branch |-> true_branch,
     false_branch |-> false_branch, phi_functions |-> phi_functions]

SSAAssert(condition) == [k |-> "SSAAssert", condition |-> condition]

SSAProgram(statements, var_versions) ==
    [statements |-> statements, var_versions |-> var_versions]

(***************************************************************************)
(* The dict var_versions: entries [name, version] in insertion order.      *)
(***************************************************************************)
HasKey(d, name) == \E i \in DOMAIN d : d[i].name = name

Lookup(d, name) == d[CHOOSE i \in DOMAIN d : d[i].name = name].version

SetKey(d, name, version) ==
    IF HasKey(d, name)
    THEN [i \in DOMAIN d |->
            IF d[i].name = name THEN [name |-> name, version |-> version] ELSE d[i]]
    ELSE Append(d, [name |-> name, version |-> version])

\* dict.update(other): the keys of other take other's values; a key that d
\* has and other lacks keeps its value and its place.
DictUpdate(d, other) ==
    LET upd[i \in 0..Len(other)] ==
            IF i = 0 THEN d ELSE SetKey(upd[i - 1], other[i].name, other[i].version)
    IN upd[Len(other)]

\* The map after get_version(name); the version it returns is the entry's.
get_version(var_versions, name) ==
    IF ~HasKey(var_versions, name) THEN SetKey(var_versions, name, 0) ELSE var_versions

\* The map after increment_version(name); the version it returns is the entry's.
increment_version(var_versions, name) ==
    IF ~HasKey(var_versions, name)
    THEN SetKey(var_versions, name, 0)
    ELSE SetKey(var_versions, name, Lookup(var_versions, name) + 1)

(***************************************************************************)
(* convert_to_ssa.  Every helper returns the node(s) it builds together    *)
(* with var_versions as the call leaves it.  set_order is the order in     *)
(* which this process iterates a set of names (Python's string hashes are  *)
(* randomized per process, so the order is not fixed by the program).      *)
(***************************************************************************)
RECURSIVE convert_expression(_, _)
convert_expression(expr, var_versions) ==
    CASE expr.k = "Variable" ->
            LET vv == get_version(var_versions, expr.name)
            IN [node |-> SSAVariable(expr.name, Lookup(vv, expr.name)), vv |-> vv]
      [] expr.k = "Constant" ->
            [node |-> SSAConstant(expr.value), vv |-> var_versions]
      [] expr.k = "BinaryOp" ->
            LET left_ssa == convert_expression(expr.left, var_versions)
                right_ssa == convert_expression(expr.right, left_ssa.vv)
            IN [node |-> SSABinaryOp(left_ssa.node, expr.op, right_ssa.node),
                vv |-> right_ssa.vv]
      [] expr.k = "UnaryOp" ->
            LET expr_ssa == convert_expression(expr.expr, var_versions)
            IN [node |-> SSAUnaryOp(expr.op, expr_ssa.node), vv |-> expr_ssa.vv]

\* Iterating a set of names: the names of the set, in the process's order.
SetIteration(S, set_order) == SelectSeq(set_order, LAMBDA n : n \in S)

\* The loop of ssa.py:206-210 over var_versions.items(), from entry i on.
RECURSIVE while_phi_functions(_, _, _, _)
while_phi_functions(i, pre_loop_versions, var_versions, phi_functions) ==
    IF i > Len(var_versions)
    THEN [phis |-> phi_functions, vv |-> var_versions]
    ELSE LET var_name == var_versions[i].name
             post_version == var_versions[i].version
         IN IF HasKey(pre_loop_versions, var_name)
               /\ Lookup(pre_loop_versions, var_name) # post_version
            THEN LET vv == increment_version(var_versions, var_name)
                     sources == << <<var_name, Lookup(pre_loop_versions, var_name)>>,
                                   <<var_name, post_version>> >>
                 IN while_phi_functions(i + 1, pre_loop_versions, vv,
                        Append(phi_functions,
                               SSAPhiFunction(var_name, Lookup(vv, var_name), sources)))
            ELSE while_phi_functions(i + 1, pre_loop_versions, var_versions,
                                     phi_functions)

\* The set modified_vars of ssa.py:241-251.
modified_vars(pre_if_versions, post_true_versions, var_versions) ==
    {pre_if_versions[i].name : i \in
        {j \in DOMAIN pre_if_versions :
            \/ Lookup(post_true_versions, pre_if_versions[j].name)
                    # pre_if_versions[j].version
            \/ Lookup(var_versions, pre_if_versions[j].name)
                    # pre_if_versions[j].version}}

\* The loop of ssa.py:254-261 over modified_vars, names being what is left
\* of the iteration.
RECURSIVE if_phi_functions(_, _, _, _)
if_phi_functions(names, post_true_versions, var_versions, phi_functions) ==
    IF names = << >>
    THEN [phis |-> phi_functions, vv |-> var_versions]
    ELSE LET var_name == Head(names)
             true_version == Lookup(post_true_versions, var_name)
             false_version == Lookup(var_versions, var_name)
         IN IF true_version # false_version
            THEN LET vv == increment_version(var_versions, var_name)
                     sources == << <<var_name, true_version>>,
                                   <<var_name, false_version>> >>
                 IN if_phi_functions(Tail(names), post_true_versions, vv,
                        Append(phi_functions,
                               SSAPhiFunction(var_name, Lookup(vv, var_name), sources)))
            ELSE if_phi_functions(Tail(names), post_true_versions, var_versions,
                                  phi_functions)

RECURSIVE convert_statement(_, _, _)
RECURSIVE convert_statements(_, _, _)
convert_statement(stmt, var_versions, set_order) ==
    CASE stmt.k = "VarDecl" ->
            LET vv == increment_version(var_versions, stmt.name)
                value_ssa == convert_expression(stmt.value, vv)
            IN [stmts |-> <<SSAVarDecl(stmt.name, Lookup(vv, stmt.name), value_ssa.node)>>,
                vv |-> value_ssa.vv]
      [] stmt.k = "Assignment" ->
            LET vv == increment_version(var_versions, stmt.name)
                value_ssa == convert_expression(stmt.value, vv)
            IN [stmts |-> <<SSAAssignment(stmt.name, Lookup(vv, stmt.name),
                                          value_ssa.node)>>,
                vv |-> value_ssa.vv]
      [] stmt.k = "While" ->
            LET pre_loop_versions == var_versions
                condition_ssa == convert_expression(stmt.condition, var_versions)
                body_ssa == convert_statements(stmt.body, condition_ssa.vv, set_order)
                phi == while_phi_functions(1, pre_loop_versions, body_ssa.vv, << >>)
            IN [stmts |-> <<SSAWhile(condition_ssa.node, body_ssa.stmts, phi.phis)>>,
                vv |-> phi.vv]
      [] stmt.k = "If" ->
            LET pre_if_versions == var_versions
                condition_ssa == convert_expression(stmt.condition, var_versions)
                true_branch_ssa ==
                    convert_statements(stmt.true_branch, condition_ssa.vv, set_order)
                post_true_versions == true_branch_ssa.vv
                restored == DictUpdate(true_branch_ssa.vv, pre_if_versions)
                false_branch_ssa ==
                    convert_statements(stmt.false_branch, restored, set_order)
                modified == modified_vars(pre_if_versions, post_true_versions,
                                          false_branch_ssa.vv)
                phi == if_phi_functions(SetIteration(modified, set_order),
                                        post_true_versions, false_branch_ssa.vv, << >>)
            IN [stmts |-> <<SSAIf(condition_ssa.node, true_branch_ssa.stmts,
                                  false_branch_ssa.stmts, phi.phis)>>,
                vv |-> phi.vv]
      [] stmt.k = "Assert" ->
            LET condition_ssa == convert_expression(stmt.condition, var_versions)
            IN [stmts |-> <<SSAAssert(condition_ssa.node)>>, vv |-> condition_ssa.vv]

convert_statements(stmts, var_versions, set_order) ==
    IF stmts = << >>
    THEN [stmts |-> << >>, vv |-> var_versions]
    ELSE LET first == convert_statement(Head(stmts), var_versions, set_order)
             rest == convert_statements(Tail(stmts), first.vv, set_order)
         IN [stmts |-> first.stmts \o rest.stmts, vv |-> rest.vv]

convert_to_ssa(ast, set_order) ==
    LET r == convert_statements(ast, << >>, set_order)
    IN SSAProgram(r.stmts, r.vv)

\* ssa.py:269-270: convert_statement raises ValueError for a statement that
\* matches none of its isinstance tests, wherever the statement is in the
\* bodies and branches it converts.
RECURSIVE Raises(_)
Raises(stmts) ==
    \E i \in DOMAIN stmts :
        CASE stmts[i].k \in {"VarDecl", "Assignment", "Assert"} -> FALSE
          [] stmts[i].k = "While" -> Raises(stmts[i].body)
          [] stmts[i].k = "If" ->
                Raises(stmts[i].true_branch) \/ Raises(stmts[i].false_branch)
          [] OTHER -> TRUE

(***************************************************************************)
(* unroll_loops.  copy.deepcopy of a tree is the tree itself: values have  *)
(* no identity here.                                                       *)
(***************************************************************************)
\* unroll_statements as it would be if every copy of a loop after the first
\* had fresh versions for the targets of its Phi functions.
RECURSIVE unroll_statements_fresh(_, _)
unroll_statements_fresh(statements, depth) ==
    IF statements = << >>
    THEN << >>
    ELSE LET stmt == Head(statements)
             this ==
                CASE stmt.k = "SSAWhile" ->
                        IF depth <= 0
                        THEN <<SSAAssert(SSAUnaryOp("not", stmt.condition))>>
                        ELSE LET if_body == stmt.phi_functions \o stmt.body
                                 fresh == [stmt EXCEPT !.phi_functions =
                                            [i \in DOMAIN @ |->
                                                [@[i] EXCEPT !.version = @ + 1]]]
                                 unrolled_body ==
                                    unroll_statements_fresh(if_body, depth - 1)
                                 unrolled_rest ==
                                    unroll_statements_fresh(<<fresh>>, depth - 1)
                             IN <<SSAIf(stmt.condition, unrolled_body, << >>, << >>)>>
                                    \o unrolled_rest
                  [] stmt.k = "SSAIf" ->
                        <<SSAIf(stmt.condition,
                                unroll_statements_fresh(stmt.true_branch, depth),
                                unroll_statements_fresh(stmt.false_branch, depth),
                                stmt.phi_functions)>>
                  [] OTHER -> <<stmt>>
         IN this \o unroll_statements_fresh(Tail(statements), depth)

\* unroll_statements as it would be if the branches of an If were copied
\* instead of unrolled.
RECURSIVE unroll_statements_flat(_, _)
unroll_statements_flat(statements, depth) ==
    IF statements = << >>
    THEN << >>
    ELSE LET stmt == Head(statements)
             this ==
                CASE stmt.k = "SSAWhile" ->
                        IF depth <= 0
                        THEN <<SSAAssert(SSAUnaryOp("not", stmt.condition))>>
                        ELSE <<SSAIf(stmt.condition,
                                     unroll_statements_flat(stmt.phi_functions \o stmt.body,
                                                            depth - 1),
                                     << >>, << >>)>>
                                \o unroll_statements_flat(<<stmt>>, depth - 1)
                  [] OTHER -> <<stmt>>
         IN this \o unroll_statements_flat(Tail(statements), depth)

RECURSIVE unroll_statements(_, _)
unroll_statements(statements, depth) ==
    IF statements = << >>
    THEN << >>
    ELSE LET stmt == Head(statements)
             this ==
                CASE stmt.k = "SSAWhile" ->
                        IF depth <= 0
                        THEN <<SSAAssert(SSAUnaryOp("not", stmt.condition))>>
                        ELSE LET if_body == stmt.phi_functions \o stmt.body
                                 unrolled_body == unroll_statements(if_body, depth - 1)
                                 unrolled_rest == unroll_statements(<<stmt>>, depth - 1)
                             IN <<SSAIf(stmt.condition, unrolled_body, << >>, << >>)>>
                                    \o unrolled_rest
                  [] stmt.k = "SSAIf" ->
                        <<SSAIf(stmt.condition,
                                unroll_statements(stmt.true_branch, depth),
                                unroll_statements(stmt.false_branch, depth),
                                stmt.phi_functions)>>
                  [] OTHER -> <<stmt>>
         IN this \o unroll_statements(Tail(statements), depth)

unroll_loops(ssa_program, depth) ==
    SSAProgram(unroll_statements(ssa_program.statements, depth),
               ssa_program.var_versions)

(***************************************************************************)
(* to_string (ssa.py:15-130): the rendering ssa_text.  The letter the code *)
(* writes for a Phi function is rendered PHI here.                         *)
(***************************************************************************)
\* str(value) of a Python int or bool.
PyStr(node) ==
    CASE node.ty = "bool" -> IF node.value = 1 THEN "True" ELSE "False"
      [] node.ty = "int" -> ToString(node.value)
      [] node.ty = "float" -> ToString(node.value) \o ".0"

RECURSIVE expr_string(_)
expr_string(node) ==
    CASE node.k = "SSAVariable" -> node.name \o "_" \o ToString(node.version)
      [] node.k = "SSAConstant" -> PyStr(node)
      [] node.k = "SSABinaryOp" ->
            "(" \o expr_string(node.left) \o " " \o node.op \o " "
                \o expr_string(node.right) \o ")"
      [] node.k = "SSAUnaryOp" ->
            IF node.op = "not" THEN "!" \o expr_string(node.expr)
            ELSE node.op \o expr_string(node.expr)

\* ", ".join of the sources of a Phi function.
RECURSIVE sources_str(_)
sources_str(sources) ==
    IF sources = << >> THEN ""
    ELSE Head(sources)[1] \o "_" \o ToString(Head(sources)[2])
            \o (IF Len(sources) > 1 THEN ", " ELSE "") \o sources_str(Tail(sources))

RECURSIVE to_string(_)
RECURSIVE lines_string(_, _)
to_string(stmt) ==
    CASE stmt.k = "SSAVarDecl" ->
            "var " \o stmt.name \o "_" \o ToString(stmt.version) \o " = "
                \o expr_string(stmt.value) \o ";"
      [] stmt.k = "SSAAssignment" ->
            stmt.name \o "_" \o ToString(stmt.version) \o " = "
                \o expr_string(stmt.value) \o ";"
      [] stmt.k = "SSAPhiFunction" ->
            stmt.name \o "_" \o ToString(stmt.version) \o " = PHI("
                \o sources_str(stmt.sources) \o ");"
      [] stmt.k = "SSAAssert" -> "assert " \o expr_string(stmt.condition) \o ";"
      [] stmt.k = "SSAWhile" ->
            "while (" \o expr_string(stmt.condition) \o ") {\n"
                \o lines_string(stmt.phi_functions, "  ")
                \o lines_string(stmt.body, "  ") \o "}"
      [] stmt.k = "SSAIf" ->
            "if (" \o expr_string(stmt.condition) \o ") {\n"
                \o lines_string(stmt.true_branch, "  ") \o "}"
                \o (IF stmt.false_branch # << >>
                    THEN " else {\n" \o lines_string(stmt.false_branch, "  ") \o "}"
                    ELSE "")
                \o (IF stmt.phi_functions # << >>
                    THEN "\n// PHI functions\n" \o lines_string(stmt.phi_functions, "")
                    ELSE "")

\* The loops "result += indent + stmt.to_string() + newline".
lines_string(statements, indent) ==
    IF statements = << >> THEN ""
    ELSE indent \o to_string(Head(statements)) \o "\n"
            \o lines_string(Tail(statements), indent)

program_to_string(ssa_program) ==
    "// SSA Form\n" \o lines_string(ssa_program.statements, "")

(***************************************************************************)
(* Z3 terms.  An integer constant Int("x_0") is the record Z3Int("",       *)
(* "x", 0): the string is prefix + name + "_" + version, and two of them   *)
(* are the same constant exactly when their strings are equal.  The        *)
(* identifiers of the input programs hold no "_", so split('_')[0] of the  *)
(* string is the name, or "p2" for a constant of the second program.       *)
(***************************************************************************)
Z3Int(prefix, name, version) ==
    [k |-> "Int", prefix |-> prefix, name |-> name, version |-> version]

IntVal(value) == [k |-> "IntVal", value |-> value]

BoolVal(value) == [k |-> "BoolVal", value |-> value]

Z3App(op, left, right) == [k |-> "App", op |-> op, left |-> left, right |-> right]

Z3Not(arg) == [k |-> "Not", arg |-> arg]

Z3Neg(arg) == [k |-> "Neg", arg |-> arg]

Z3Or(args) == [k |-> "Or", args |-> args]

\* var_name.split('_')[0]
base_name(var) == IF var.prefix = "" THEN var.name ELSE "p2"

\* '_0' in var_name
is_initial(var) == var.version = 0

(***************************************************************************)
(* convert_expr of check_assertion and of check_equivalence (the same code *)
(* but for the prefix): the term of a node, and the constants it enters    *)
(* in the dict variables, in the order it meets them.                      *)
(***************************************************************************)
RECURSIVE convert_expr(_, _)
convert_expr(node, prefix) ==
    CASE node.k = "SSAVariable" -> Z3Int(prefix, node.name, node.version)
      [] node.k = "SSAConstant" ->
            IF node.ty = "bool" THEN BoolVal(node.value = 1) ELSE IntVal(node.value)
      [] node.k = "SSABinaryOp" ->
            Z3App(node.op, convert_expr(node.left, prefix), convert_expr(node.right, prefix))
      [] node.k = "SSAUnaryOp" ->
            IF node.op = "-" THEN Z3Neg(convert_expr(node.expr, prefix))
            ELSE Z3Not(convert_expr(node.expr, prefix))

RECURSIVE expr_variables(_, _)
expr_variables(node, prefix) ==
    CASE node.k = "SSAVariable" -> <<Z3Int(prefix, node.name, node.version)>>
      [] node.k = "SSAConstant" -> << >>
      [] node.k = "SSABinaryOp" ->
            expr_variables(node.left, prefix) \o expr_variables(node.right, prefix)
      [] node.k = "SSAUnaryOp" -> expr_variables(node.expr, prefix)

\* "if var_name not in variables: variables[var_name] = Int(var_name)", for
\* each constant of vars in turn.
declare(variables, vars) ==
    LET d[i \in 0..Len(vars)] ==
            IF i = 0 THEN variables
            ELSE IF \E j \in DOMAIN d[i - 1] : d[i - 1][j] = vars[i]
                 THEN d[i - 1] ELSE Append(d[i - 1], vars[i])
    IN d[Len(vars)]

\* The disjunction a Phi function adds: target == source, for each source.
phi_constraint(stmt, prefix) ==
    Z3Or([i \in DOMAIN stmt.sources |->
            Z3App("==", Z3Int(prefix, stmt.name, stmt.version),
                  Z3Int(prefix, stmt.sources[i][1], stmt.sources[i][2]))])

phi_variables(stmt, prefix) ==
    <<Z3Int(prefix, stmt.name, stmt.version)>>
        \o [i \in DOMAIN stmt.sources |->
                Z3Int(prefix, stmt.sources[i][1], stmt.sources[i][2])]

(***************************************************************************)
(* process_statement of check_assertion.  enc is the state it works on:    *)
(* the dict variables (keys in insertion order), the assertions of the     *)
(* solver, and the list assertions.  A statement of any other kind (the    *)
(* Python list that constant_propagation can leave in a branch) matches no *)
(* isinstance test and is passed over.                                     *)
(***************************************************************************)
RECURSIVE process_statement(_, _)
RECURSIVE process_statements(_, _)
process_statement(stmt, enc) ==
    CASE stmt.k \in {"SSAVarDecl", "SSAAssignment"} ->
            [enc EXCEPT
                !.variables = declare(@, <<Z3Int("", stmt.name, stmt.version)>>
                                            \o expr_variables(stmt.value, "")),
                !.solver = Append(@, Z3App("==", Z3Int("", stmt.name, stmt.version),
                                           convert_expr(stmt.value, "")))]
      [] stmt.k = "SSAPhiFunction" ->
            [enc EXCEPT
                !.variables = declare(@, phi_variables(stmt, "")),
                !.solver = IF stmt.sources # << >>
                           THEN Append(@, phi_constraint(stmt, "")) ELSE @]
      [] stmt.k = "SSAAssert" ->
            [enc EXCEPT
                !.variables = declare(@, expr_variables(stmt.condition, "")),
                !.assertions = Append(@, convert_expr(stmt.condition, ""))]
      [] stmt.k = "SSAIf" ->
            LET c == [enc EXCEPT
                        !.variables = declare(@, expr_variables(stmt.condition, ""))]
                t == process_statements(stmt.true_branch, c)
                f == process_statements(stmt.false_branch, t)
            IN process_statements(stmt.phi_functions, f)
      [] stmt.k = "SSAWhile" ->
            LET c == [enc EXCEPT
                        !.variables = declare(@, expr_variables(stmt.condition, ""))]
                b == process_statements(stmt.body, c)
            IN process_statements(stmt.phi_functions, b)
      [] OTHER -> enc

process_statements(statements, enc) ==
    IF statements = << >> THEN enc
    ELSE process_statements(Tail(statements), process_statement(Head(statements), enc))

(***************************************************************************)
(* The solver.  A model is a function from the integer constants of the    *)
(* asserted formulas to integers.  Z3 decides the formulas over all the    *)
(* integers; here a constant whose value the formulas already assigned     *)
(* determine takes that value, whatever it is, and any other constant      *)
(* ranges over -MaxValue..MaxValue.                                        *)
(***************************************************************************)
MaxValue == 2

Values == (0 - MaxValue)..MaxValue

\* Z3's integer division and modulus: the remainder is never negative.
Z3Div(l, r) == IF r > 0 THEN l \div r ELSE 0 - (l \div (0 - r))

Z3Mod(l, r) == IF r > 0 THEN l % r ELSE l % (0 - r)

RECURSIVE Eval(_, _)
Eval(t, m) ==
    CASE t.k = "Int" -> m[t]
      [] t.k = "IntVal" -> t.value
      [] t.k = "BoolVal" -> t.value
      [] t.k = "Neg" -> 0 - Eval(t.arg, m)
      [] t.k = "Not" -> ~Eval(t.arg, m)
      [] t.k = "Or" -> \E i \in DOMAIN t.args : Eval(t.args[i], m)
      [] t.k = "App" ->
            LET l == Eval(t.left, m)
                r == Eval(t.right, m)
            IN CASE t.op = "+" -> l + r
                 [] t.op = "-" -> l - r
                 [] t.op = "*" -> l * r
                 [] t.op = "/" -> Z3Div(l, r)
                 [] t.op = "%" -> Z3Mod(l, r)
                 [] t.op = "==" -> l = r
                 [] t.op = "!=" -> l # r
                 [] t.op = "<" -> l < r
                 [] t.op = ">" -> l > r
                 [] t.op = "<=" -> l <= r
                 [] t.op = ">=" -> l >= r
                 [] t.op = "and" -> l /\ r
                 [] t.op = "or" -> l \/ r

RECURSIVE TermVars(_)
TermVars(t) ==
    CASE t.k = "Int" -> {t}
      [] t.k \in {"IntVal", "BoolVal"} -> {}
      [] t.k \in {"Neg", "Not"} -> TermVars(t.arg)
      [] t.k = "Or" -> UNION {TermVars(t.args[i]) : i \in DOMAIN t.args}
      [] t.k = "App" -> TermVars(t.left) \cup TermVars(t.right)

\* The values formula c leaves to the unassigned constant v under the
\* partial model m, when c alone determines them: c is v == e with e
\* assigned, or a disjunction of v == s with every s assigned.
Determines(c, v, m) ==
    \/ /\ c.k = "App" /\ c.op = "==" /\ c.left = v
       /\ TermVars(c.right) \subseteq DOMAIN m
    \/ /\ c.k = "Or" /\ c.args # << >>
       /\ \A i \in DOMAIN c.args :
            /\ c.args[i].k = "App" /\ c.args[i].op = "==" /\ c.args[i].left = v
            /\ c.args[i].right.k = "Int" /\ c.args[i].right \in DOMAIN m

Determined(c, v, m) ==
    IF c.k = "App" THEN {Eval(c.right, m)}
    ELSE {m[c.args[i].right] : i \in DOMAIN c.args}

RECURSIVE Solve(_, _, _)
Solve(formulas, m, unassigned) ==
    IF \E i \in DOMAIN formulas :
            TermVars(formulas[i]) \subseteq DOMAIN m /\ ~Eval(formulas[i], m)
    THEN {}
    ELSE IF unassigned = {} THEN {m}
    ELSE LET forced == {v \in unassigned :
                            \E i \in DOMAIN formulas : Determines(formulas[i], v, m)}
             v == IF forced # {} THEN CHOOSE u \in forced : TRUE
                  ELSE CHOOSE u \in unassigned : TRUE
             candidates ==
                IF forced # {}
                THEN Determined(
                        formulas[CHOOSE i \in DOMAIN formulas : Determines(formulas[i], v, m)],
                        v, m)
                ELSE Values
         IN UNION {Solve(formulas, (v :> val) @@ m, unassigned \ {v}) : val \in candidates}

\* The models of solver.check() == sat; the empty set when it is unsat.
Models(formulas) ==
    Solve(formulas, [v \in {} |-> 0], UNION {TermVars(formulas[i]) : i \in DOMAIN formulas})

(***************************************************************************)
(* check_assertion (smt.py:385-598).  Z3 may return any model of the       *)
(* formulas, so the function has a set of possible results.                *)
(***************************************************************************)
\* The loops of smt.py:536-541, 563-568 and 589-594: each constant the
\* model gives a value, in the order of variables, overwrites the entry of
\* its base name.
extract(variables, model) ==
    LET d[i \in 0..Len(variables)] ==
            IF i = 0 THEN [b \in {} |-> 0]
            ELSE IF variables[i] \in DOMAIN model
                 THEN (base_name(variables[i]) :> model[variables[i]]) @@ d[i - 1]
                 ELSE d[i - 1]
    IN d[Len(variables)]

\* The loop of smt.py:546-570 from assertion i on: the lists of models that
\* assertion_solver can return, one model for each assertion whose negation
\* is satisfiable.
RECURSIVE failing_assertions(_, _, _)
failing_assertions(enc, i, found) ==
    IF i > Len(enc.assertions) THEN {found}
    ELSE LET models == Models(Append(enc.solver, Z3Not(enc.assertions[i])))
         IN IF models = {}
            THEN failing_assertions(enc, i + 1, found)
            ELSE UNION {failing_assertions(enc, i + 1, Append(found, model))
                        : model \in models}

\* The formula of smt.py:575-579 that excludes the first counterexample.
blocking_constraint(variables, counterexample) ==
    LET c[i \in 0..Len(variables)] ==
            IF i = 0 THEN BoolVal(FALSE)
            ELSE IF base_name(variables[i]) \in DOMAIN counterexample
                 THEN Z3App("or", c[i - 1],
                        Z3App("!=", variables[i],
                              IntVal(counterexample[base_name(variables[i])])))
                 ELSE c[i - 1]
    IN c[Len(variables)]

\* smt.py:572-596: assertion_solver is the solver of the last assertion.
second_counterexample(enc, found) ==
    IF Len(found) # 1 THEN {found}
    ELSE LET assertion_solver ==
                Append(enc.solver, Z3Not(enc.assertions[Len(enc.assertions)]))
             models == Models(Append(assertion_solver,
                            blocking_constraint(enc.variables,
                                                extract(enc.variables, found[1]))))
         IN IF models = {} THEN {found}
            ELSE {Append(found, model) : model \in models}

\* The encoding of a program: the state process_statement leaves.
encode(ssa) ==
    process_statements(ssa.statements,
                       [variables |-> << >>, solver |-> << >>, assertions |-> << >>])

\* The runs of check_assertion: the tuple it returns (ok, examples,
\* counterexamples), with the models the solver returned, the one of the
\* example first and then the one of each counterexample.
check_assertion_runs(ssa) ==
    LET enc == encode(ssa)
        models == Models(enc.solver)
    IN IF models = {}
       THEN {[ok |-> TRUE, examples |-> << >>, counterexamples |-> << >>,
              models |-> << >>]}
       ELSE {[ok |-> Len(found) = 0,
              examples |-> <<extract(enc.variables, model)>>,
              counterexamples |->
                    [i \in DOMAIN found |-> extract(enc.variables, found[i])],
              models |-> <<model>> \o found] :
                model \in models,
                found \in UNION {second_counterexample(enc, first) :
                                    first \in failing_assertions(enc, 1, << >>)}}

check_assertion(ssa) ==
    {[ok |-> run.ok, examples |-> run.examples, counterexamples |-> run.counterexamples] :
        run \in check_assertion_runs(ssa)}

(***************************************************************************)
(* constant_propagation (optimizer.py:31-192).  The dict constants maps    *)
(* <<name, version>> to the constant recorded for it.                      *)
(***************************************************************************)
\* Python arithmetic on two constants: a float operand makes a float.
NumType(l, r) == IF l.ty = "float" \/ r.ty = "float" THEN "float" ELSE "int"

\* The folded constant, or the operator node when the code falls through to
\* optimizer.py:96.  "/" is Python's true division, whose result is a float;
\* only whole quotients are representable here.
fold_binary(left, op, right) ==
    LET l == left.value
        r == right.value
    IN CASE op = "+" -> PyConstant(NumType(left, right), l + r)
         [] op = "-" -> PyConstant(NumType(left, right), l - r)
         [] op = "*" -> PyConstant(NumType(left, right), l * r)
         [] op = "/" /\ r = 0 -> SSABinaryOp(left, op, right)
         [] op = "/" /\ r > 0 /\ l % r = 0 -> PyConstant("float", l \div r)
         [] op = "%" /\ r = 0 -> SSABinaryOp(left, op, right)
         [] op = "%" /\ r > 0 -> PyConstant(NumType(left, right), l % r)
         [] op = "==" -> PyBool(l = r)
         [] op = "!=" -> PyBool(l # r)
         [] op = "<" -> PyBool(l < r)
         [] op = ">" -> PyBool(l > r)
         [] op = "<=" -> PyBool(l <= r)
         [] op = ">=" -> PyBool(l >= r)
         [] op = "and" -> IF l = 0 THEN left ELSE right
         [] op = "or" -> IF l # 0 THEN left ELSE right

RECURSIVE propagate_in_expr(_, _)
propagate_in_expr(expr, constants) ==
    CASE expr.k = "SSAVariable" ->
            IF <<expr.name, expr.version>> \in DOMAIN constants
            THEN constants[<<expr.name, expr.version>>]
            ELSE expr
      [] expr.k = "SSAConstant" -> expr
      [] expr.k = "SSABinaryOp" ->
            LET left == propagate_in_expr(expr.left, constants)
                right == propagate_in_expr(expr.right, constants)
            IN IF left.k = "SSAConstant" /\ right.k = "SSAConstant"
               THEN fold_binary(left, expr.op, right)
               ELSE SSABinaryOp(left, expr.op, right)
      [] expr.k = "SSAUnaryOp" ->
            LET inner == propagate_in_expr(expr.expr, constants)
            IN IF inner.k = "SSAConstant"
               THEN IF expr.op = "-"
                    THEN PyConstant(IF inner.ty = "float" THEN "float" ELSE "int",
                                    0 - inner.value)
                    ELSE PyBool(inner.value = 0)
               ELSE SSAUnaryOp(expr.op, inner)

\* propagate_in_stmt returns a statement, or a Python list of what it
\* returned for the statements of the branch that is kept.
RECURSIVE propagate_in_stmt(_, _)
RECURSIVE propagate_in_stmts(_, _)
propagate_in_stmt(stmt, constants) ==
    CASE stmt.k \in {"SSAVarDecl", "SSAAssignment"} ->
            LET propagated_value == propagate_in_expr(stmt.value, constants)
            IN [stmt |-> [stmt EXCEPT !.value = propagated_value],
                constants |->
                    IF propagated_value.k = "SSAConstant"
                    THEN (<<stmt.name, stmt.version>> :> propagated_value) @@ constants
                    ELSE constants]
      [] stmt.k = "SSAAssert" ->
            [stmt |-> SSAAssert(propagate_in_expr(stmt.condition, constants)),
             constants |-> constants]
      [] stmt.k = "SSAIf" ->
            LET condition == propagate_in_expr(stmt.condition, constants)
            IN IF condition.k = "SSAConstant"
               THEN IF condition.value # 0
                    THEN LET t == propagate_in_stmts(stmt.true_branch, constants)
                         IN [stmt |-> PyList(t.stmts), constants |-> t.constants]
                    ELSE IF stmt.false_branch # << >>
                    THEN LET f == propagate_in_stmts(stmt.false_branch, constants)
                         IN [stmt |-> PyList(f.stmts), constants |-> f.constants]
                    ELSE [stmt |-> PyList(<< >>), constants |-> constants]
               ELSE LET t == propagate_in_stmts(stmt.true_branch, constants)
                        f == propagate_in_stmts(stmt.false_branch, t.constants)
                        p == propagate_in_stmts(stmt.phi_functions, f.constants)
                    IN [stmt |-> SSAIf(condition, t.stmts, f.stmts, p.stmts),
                        constants |-> p.constants]
      [] stmt.k = "SSAWhile" ->
            LET condition == propagate_in_expr(stmt.condition, constants)
            IN IF condition.k = "SSAConstant" /\ condition.value = 0
               THEN [stmt |-> PyList(<< >>), constants |-> constants]
               ELSE LET b == propagate_in_stmts(stmt.body, constants)
                        p == propagate_in_stmts(stmt.phi_functions, b.constants)
                    IN [stmt |-> SSAWhile(condition, b.stmts, p.stmts),
                        constants |-> p.constants]
      [] OTHER -> [stmt |-> stmt, constants |-> constants]

\* [propagate_in_stmt(s) for s in statements]
propagate_in_stmts(statements, constants) ==
    IF statements = << >> THEN [stmts |-> << >>, constants |-> constants]
    ELSE LET first == propagate_in_stmt(Head(statements), constants)
             rest == propagate_in_stmts(Tail(statements), first.constants)
         IN [stmts |-> <<first.stmt>> \o rest.stmts, constants |-> rest.constants]

\* optimizer.py:182-190: a list returned for a top-level statement is spliced
\* into the program, any other result is appended.
RECURSIVE splice(_)
splice(results) ==
    IF results = << >> THEN << >>
    ELSE (IF Head(results).k = "list" THEN Head(results).items ELSE <<Head(results)>>)
            \o splice(Tail(results))

constant_propagation(ssa) ==
    SSAProgram(splice(propagate_in_stmts(ssa.statements, [c \in {} |-> 0]).stmts),
               ssa.var_versions)

(***************************************************************************)
(* dead_code_elimination (optimizer.py:194-262).                           *)
(***************************************************************************)
RECURSIVE find_used_vars(_)
find_used_vars(expr) ==
    CASE expr.k = "SSAVariable" -> {<<expr.name, expr.version>>}
      [] expr.k = "SSABinaryOp" -> find_used_vars(expr.left) \cup find_used_vars(expr.right)
      [] expr.k = "SSAUnaryOp" -> find_used_vars(expr.expr)
      [] OTHER -> {}

\* What the first pass collects from the statements of a branch or a body:
\* the declarations, assignments and asserts that are directly in it.
branch_used_vars(statements) ==
    UNION {CASE statements[i].k \in {"SSAVarDecl", "SSAAssignment"} ->
                    find_used_vars(statements[i].value)
             [] statements[i].k = "SSAAssert" -> find_used_vars(statements[i].condition)
             [] OTHER -> {}
           : i \in DOMAIN statements}

\* What the first pass collects from one top-level statement.
stmt_used_vars(stmt) ==
    CASE stmt.k \in {"SSAVarDecl", "SSAAssignment"} -> find_used_vars(stmt.value)
      [] stmt.k = "SSAPhiFunction" ->
            {<<stmt.sources[i][1], stmt.sources[i][2]>> : i \in DOMAIN stmt.sources}
      [] stmt.k = "SSAAssert" -> find_used_vars(stmt.condition)
      [] stmt.k = "SSAIf" ->
            find_used_vars(stmt.condition) \cup branch_used_vars(stmt.true_branch)
                \cup branch_used_vars(stmt.false_branch)
      [] stmt.k = "SSAWhile" ->
            find_used_vars(stmt.condition) \cup branch_used_vars(stmt.body)
      [] OTHER -> {}

used_vars(statements) == UNION {stmt_used_vars(statements[i]) : i \in DOMAIN statements}

dead_code_elimination(ssa) ==
    LET used == used_vars(ssa.statements)
        live(stmt) == stmt.k \in {"SSAVarDecl", "SSAAssignment"}
                        => <<stmt.name, stmt.version>> \in used
    IN SSAProgram(SelectSeq(ssa.statements, live), ssa.var_versions)

(***************************************************************************)
(* common_subexpression_elimination (optimizer.py:264-387).  The dict      *)
(* expr_to_var maps the string of an expression to <<name, version>>.      *)
(***************************************************************************)
RECURSIVE expr_to_string(_)
expr_to_string(expr) ==
    CASE expr.k = "SSAVariable" -> expr.name \o "_" \o ToString(expr.version)
      [] expr.k = "SSAConstant" -> PyStr(expr)
      [] expr.k = "SSABinaryOp" ->
            "(" \o expr_to_string(expr.left) \o " " \o expr.op \o " "
                \o expr_to_string(expr.right) \o ")"
      [] expr.k = "SSAUnaryOp" -> expr.op \o "(" \o expr_to_string(expr.expr) \o ")"

RECURSIVE eliminate_cse_in_expr(_, _)
eliminate_cse_in_expr(expr, expr_to_var) ==
    CASE expr.k = "SSABinaryOp" ->
            LET rewritten == SSABinaryOp(eliminate_cse_in_expr(expr.left, expr_to_var),
                                         expr.op,
                                         eliminate_cse_in_expr(expr.right, expr_to_var))
                expr_str == expr_to_string(rewritten)
            IN IF expr_str \in DOMAIN expr_to_var
               THEN SSAVariable(expr_to_var[expr_str][1], expr_to_var[expr_str][2])
               ELSE rewritten
      [] expr.k = "SSAUnaryOp" ->
            LET rewritten == SSAUnaryOp(expr.op,
                                        eliminate_cse_in_expr(expr.expr, expr_to_var))
                expr_str == expr_to_string(rewritten)
            IN IF expr_str \in DOMAIN expr_to_var
               THEN SSAVariable(expr_to_var[expr_str][1], expr_to_var[expr_str][2])
               ELSE rewritten
      [] OTHER -> expr

\* The loops over a branch or a body (optimizer.py:353-380): declarations,
\* assignments and asserts directly in it are rewritten, nothing is recorded.
cse_in_branch(statements, expr_to_var) ==
    [i \in DOMAIN statements |->
        CASE statements[i].k \in {"SSAVarDecl", "SSAAssignment"} ->
                [statements[i] EXCEPT !.value = eliminate_cse_in_expr(@, expr_to_var)]
          [] statements[i].k = "SSAAssert" ->
                [statements[i] EXCEPT !.condition = eliminate_cse_in_expr(@, expr_to_var)]
          [] OTHER -> statements[i]]

\* cse_in_stmt as it would be if the declarations and assignments of the
\* true branch of an If were recorded in the dict as well.
cse_in_stmt_exporting(stmt, expr_to_var) ==
    CASE stmt.k \in {"SSAVarDecl", "SSAAssignment"} ->
            LET value == eliminate_cse_in_expr(stmt.value, expr_to_var)
            IN [stmt |-> [stmt EXCEPT !.value = value],
                expr_to_var |->
                    (expr_to_string(value) :> <<stmt.name, stmt.version>>) @@ expr_to_var]
      [] stmt.k = "SSAAssert" ->
            [stmt |-> [stmt EXCEPT !.condition = eliminate_cse_in_expr(@, expr_to_var)],
             expr_to_var |-> expr_to_var]
      [] stmt.k = "SSAIf" ->
            [stmt |-> [stmt EXCEPT
                        !.condition = eliminate_cse_in_expr(@, expr_to_var),
                        !.true_branch = cse_in_branch(@, expr_to_var),
                        !.false_branch = cse_in_branch(@, expr_to_var)],
             expr_to_var |->
                LET branch == cse_in_branch(stmt.true_branch, expr_to_var)
                    recorded == {i \in DOMAIN branch :
                                    branch[i].k \in {"SSAVarDecl", "SSAAssignment"}}
                IN [e \in {expr_to_string(branch[i].value) : i \in recorded}
                        \cup DOMAIN expr_to_var |->
                      IF \E i \in recorded : expr_to_string(branch[i].value) = e
                      THEN LET i == CHOOSE i \in recorded :
                                        expr_to_string(branch[i].value) = e
                           IN <<branch[i].name, branch[i].version>>
                      ELSE expr_to_var[e]]]
      [] stmt.k = "SSAPhiFunction" ->
            [stmt |-> stmt,
             expr_to_var |->
                ((stmt.name \o "_" \o ToString(stmt.version))
                    :> <<stmt.name, stmt.version>>) @@ expr_to_var]
      [] stmt.k = "SSAWhile" ->
            [stmt |-> [stmt EXCEPT
                        !.condition = eliminate_cse_in_expr(@, expr_to_var),
                        !.body = cse_in_branch(@, expr_to_var)],
             expr_to_var |-> expr_to_var]
      [] OTHER -> [stmt |-> stmt, expr_to_var |-> expr_to_var]

\* One top-level statement: the statement as rewritten and the dict after it.
cse_in_stmt(stmt, expr_to_var) ==
    CASE stmt.k \in {"SSAVarDecl", "SSAAssignment"} ->
            LET value == eliminate_cse_in_expr(stmt.value, expr_to_var)
            IN [stmt |-> [stmt EXCEPT !.value = value],
                expr_to_var |->
                    (expr_to_string(value) :> <<stmt.name, stmt.version>>) @@ expr_to_var]
      [] stmt.k = "SSAPhiFunction" ->
            [stmt |-> stmt,
             expr_to_var |->
                ((stmt.name \o "_" \o ToString(stmt.version))
                    :> <<stmt.name, stmt.version>>) @@ expr_to_var]
      [] stmt.k = "SSAAssert" ->
            [stmt |-> [stmt EXCEPT !.condition = eliminate_cse_in_expr(@, expr_to_var)],
             expr_to_var |-> expr_to_var]
      [] stmt.k = "SSAIf" ->
            [stmt |-> [stmt EXCEPT
                        !.condition = eliminate_cse_in_expr(@, expr_to_var),
                        !.true_branch = cse_in_branch(@, expr_to_var),
                        !.false_branch = cse_in_branch(@, expr_to_var)],
             expr_to_var |-> expr_to_var]
      [] stmt.k = "SSAWhile" ->
            [stmt |-> [stmt EXCEPT
                        !.condition = eliminate_cse_in_expr(@, expr_to_var),
                        !.body = cse_in_branch(@, expr_to_var)],
             expr_to_var |-> expr_to_var]
      [] OTHER -> [stmt |-> stmt, expr_to_var |-> expr_to_var]

RECURSIVE cse_in_stmts(_, _)
cse_in_stmts(statements, expr_to_var) ==
    IF statements = << >> THEN << >>
    ELSE LET first == cse_in_stmt(Head(statements), expr_to_var)
         IN <<first.stmt>> \o cse_in_stmts(Tail(statements), first.expr_to_var)

common_subexpression_elimination(ssa) ==
    SSAProgram(cse_in_stmts(ssa.statements, [e \in {} |-> 0]), ssa.var_versions)

(***************************************************************************)
(* optimize_ssa (optimizer.py:5-29): the requested passes, in this order.  *)
(***************************************************************************)
optimize_ssa(ssa, optimizations) ==
    LET cp == IF "Constant Propagation" \in optimizations
              THEN constant_propagation(ssa) ELSE ssa
        dce == IF "Dead Code Elimination" \in optimizations
               THEN dead_code_elimination(cp) ELSE cp
    IN IF "Common Subexpression Elimination" \in optimizations
       THEN common_subexpression_elimination(dce) ELSE dce

(***************************************************************************)
(* The objects the functions work on.  heap is the sequence of the         *)
(* SSAProgram objects that exist, each with the tree it holds, and a       *)
(* reference is an index of it.  A call gets the reference of its          *)
(* argument and gives back the heap it leaves and the reference of the     *)
(* object it returns: a write through a reference shows in every holder    *)
(* of that reference.                                                      *)
(***************************************************************************)
\* The copy shares the object instead of copying it.
deepcopy_alias(heap, ref) == [heap |-> heap, ref |-> ref]

\* copy.deepcopy: a new object with a tree of its own.
deepcopy(heap, ref) == [heap |-> Append(heap, heap[ref]), ref |-> Len(heap) + 1]

\* SSAProgram(...): the new object a function returns.
allocate(heap, program) == [heap |-> Append(heap, program), ref |-> Len(heap) + 1]

\* ssa.py:289-349: the loops are unrolled in ssa_copy, in new lists.
unroll_loops_call(heap, ssa_program, depth) ==
    LET ssa_copy == deepcopy(heap, ssa_program)
    IN allocate(ssa_copy.heap, unroll_loops(ssa_copy.heap[ssa_copy.ref], depth))

\* optimizer.py:42-192: the statements are rebuilt from those of optimized.
constant_propagation_call(heap, ssa) ==
    LET optimized == deepcopy(heap, ssa)
    IN allocate(optimized.heap, constant_propagation(optimized.heap[optimized.ref]))

\* optimizer.py:205-262: the live statements of optimized go to a new list.
dead_code_elimination_call(heap, ssa) ==
    LET optimized == deepcopy(heap, ssa)
    IN allocate(optimized.heap, dead_code_elimination(optimized.heap[optimized.ref]))

\* optimizer.py:275-387: the statements of optimized are rewritten in place
\* (stmt.value = ..., stmt.condition = ..., expr.left = ...) and the same
\* statement objects are put in the program that is returned.
common_subexpression_elimination_call(heap, ssa) ==
    LET optimized == deepcopy(heap, ssa)
        rewritten == common_subexpression_elimination(optimized.heap[optimized.ref])
        written == [optimized.heap EXCEPT
                        ![optimized.ref].statements = rewritten.statements]
    IN allocate(written, rewritten)

\* optimizer.py:20-21.
optimize_ssa_cp(optimized, optimizations) ==
    IF "Constant Propagation" \in optimizations
    THEN constant_propagation_call(optimized.heap, optimized.ref) ELSE optimized

\* optimizer.py:23-24.
optimize_ssa_dce(optimized, optimizations) ==
    IF "Dead Code Elimination" \in optimizations
    THEN dead_code_elimination_call(optimized.heap, optimized.ref) ELSE optimized

\* optimizer.py:26-27.
optimize_ssa_cse(optimized, optimizations) ==
    IF "Common Subexpression Elimination" \in optimizations
    THEN common_subexpression_elimination_call(optimized.heap, optimized.ref)
    ELSE optimized

\* optimizer.py:16-29: each pass is given the object optimized refers to.
optimize_ssa_call(heap, ssa, optimizations) ==
    optimize_ssa_cse(
        optimize_ssa_dce(
            optimize_ssa_cp(deepcopy(heap, ssa), optimizations), optimizations),
        optimizations)

(***************************************************************************)
(* check_equivalence (smt.py:600-895).  enc holds variables1, variables2   *)
(* (keys in insertion order), the assertions of the solver, and the dicts  *)
(* output_vars1 and output_vars2 as functions from name to version.        *)
(***************************************************************************)
prefix_of(program_idx) == IF program_idx = 1 THEN "" ELSE "p2_"

\* track_variable: the highest version seen for the name.
track_variable(var_map, name, version) ==
    IF name \notin DOMAIN var_map \/ version > var_map[name]
    THEN (name :> version) @@ var_map
    ELSE var_map

\* enc after the constants vars are entered in the program's dict variables.
declare_in(enc, program_idx, vars) ==
    IF program_idx = 1
    THEN [enc EXCEPT !.variables1 = declare(@, vars)]
    ELSE [enc EXCEPT !.variables2 = declare(@, vars)]

\* enc after track_variable(name, version, program_idx).
track_in(enc, program_idx, name, version) ==
    IF program_idx = 1
    THEN [enc EXCEPT !.output_vars1 = track_variable(@, name, version)]
    ELSE [enc EXCEPT !.output_vars2 = track_variable(@, name, version)]

RECURSIVE eq_process_statement(_, _, _)
RECURSIVE eq_process_statements(_, _, _)
eq_process_statement(stmt, program_idx, enc) ==
    LET prefix == prefix_of(program_idx)
    IN CASE stmt.k \in {"SSAVarDecl", "SSAAssignment"} ->
            LET d == declare_in(enc, program_idx,
                        <<Z3Int(prefix, stmt.name, stmt.version)>>
                            \o expr_variables(stmt.value, prefix))
                a == [d EXCEPT !.solver =
                        Append(@, Z3App("==", Z3Int(prefix, stmt.name, stmt.version),
                                        convert_expr(stmt.value, prefix)))]
            IN track_in(a, program_idx, stmt.name, stmt.version)
         [] stmt.k = "SSAPhiFunction" ->
            LET d == declare_in(enc, program_idx, phi_variables(stmt, prefix))
                a == [d EXCEPT !.solver =
                        IF stmt.sources # << >>
                        THEN Append(@, phi_constraint(stmt, prefix)) ELSE @]
            IN track_in(a, program_idx, stmt.name, stmt.version)
         [] stmt.k = "SSAAssert" ->
            LET d == declare_in(enc, program_idx, expr_variables(stmt.condition, prefix))
            IN [d EXCEPT !.solver = Append(@, convert_expr(stmt.condition, prefix))]
         [] stmt.k = "SSAIf" ->
            LET c == declare_in(enc, program_idx, expr_variables(stmt.condition, prefix))
                t == eq_process_statements(stmt.true_branch, program_idx, c)
                f == eq_process_statements(stmt.false_branch, program_idx, t)
            IN eq_process_statements(stmt.phi_functions, program_idx, f)
         [] stmt.k = "SSAWhile" ->
            LET c == declare_in(enc, program_idx, expr_variables(stmt.condition, prefix))
                b == eq_process_statements(stmt.body, program_idx, c)
            IN eq_process_statements(stmt.phi_functions, program_idx, b)
         [] OTHER -> enc

eq_process_statements(statements, program_idx, enc) ==
    IF statements = << >> THEN enc
    ELSE LET next == eq_process_statement(Head(statements), program_idx, enc)
         IN \* the state is computed statement by statement, as the loop does
            IF next = enc
            THEN eq_process_statements(Tail(statements), program_idx, enc)
            ELSE eq_process_statements(Tail(statements), program_idx, next)

\* The constants compared for an output name.
output_var1(enc, var_name) == Z3Int("", var_name, enc.output_vars1[var_name])

output_var2(enc, var_name) == Z3Int("p2_", var_name, enc.output_vars2[var_name])

\* smt.py:815-817: False or not c1 or not c2 ..., c being var1 == var2.
inequivalence_constraint(enc, common_outputs) ==
    LET c[i \in 0..Len(common_outputs)] ==
            IF i = 0 THEN BoolVal(FALSE)
            ELSE Z3App("or", c[i - 1],
                    Z3Not(Z3App("==", output_var1(enc, common_outputs[i]),
                                output_var2(enc, common_outputs[i]))))
    IN c[Len(common_outputs)]

\* smt.py:797-803: the example read from a model of the two programs.
eq_example(enc, common_outputs, model) ==
    LET d[i \in 0..Len(common_outputs)] ==
            IF i = 0 THEN [b \in {} |-> 0]
            ELSE IF output_var1(enc, common_outputs[i]) \in DOMAIN model
                 THEN (common_outputs[i] :> model[output_var1(enc, common_outputs[i])])
                        @@ d[i - 1]
                 ELSE d[i - 1]
    IN d[Len(common_outputs)]

\* smt.py:827-840 (and 870-883): the outputs whose two values differ.
differing_outputs(enc, common_outputs, model) ==
    LET d[i \in 0..Len(common_outputs)] ==
            IF i = 0 THEN [b \in {} |-> <<0, 0>>]
            ELSE LET var1 == output_var1(enc, common_outputs[i])
                     var2 == output_var2(enc, common_outputs[i])
                 IN IF var1 \in DOMAIN model /\ var2 \in DOMAIN model
                       /\ model[var1] # model[var2]
                    THEN (common_outputs[i] :> <<model[var1], model[var2]>>) @@ d[i - 1]
                    ELSE d[i - 1]
    IN d[Len(common_outputs)]

\* smt.py:843-848 (and 886-891): the version-0 constants of program 1 are
\* written over the entries of their base names.
include_inputs(enc, common_outputs, model, counterexample) ==
    LET in_common(name) == \E i \in DOMAIN common_outputs : common_outputs[i] = name
        d[i \in 0..Len(enc.variables1)] ==
            IF i = 0 THEN counterexample
            ELSE LET var == enc.variables1[i]
                 IN IF is_initial(var) /\ in_common(base_name(var)) /\ var \in DOMAIN model
                    THEN (base_name(var) :> <<model[var], model[var]>>) @@ d[i - 1]
                    ELSE d[i - 1]
    IN d[Len(enc.variables1)]

eq_counterexample(enc, common_outputs, model) ==
    include_inputs(enc, common_outputs, model,
                   differing_outputs(enc, common_outputs, model))

\* smt.py:855-860: the formula that excludes the first counterexample.
eq_blocking_constraint(enc, common_outputs, counterexample) ==
    LET c[i \in 0..Len(common_outputs)] ==
            IF i = 0 THEN BoolVal(FALSE)
            ELSE IF common_outputs[i] \in DOMAIN counterexample
                 THEN Z3Or(<<c[i - 1],
                            Z3App("!=", output_var1(enc, common_outputs[i]),
                                  IntVal(counterexample[common_outputs[i]][1])),
                            Z3App("!=", output_var2(enc, common_outputs[i]),
                                  IntVal(counterexample[common_outputs[i]][2]))>>)
                 ELSE c[i - 1]
    IN c[Len(common_outputs)]

\* The encoding of the two programs: the state process_statement leaves.
eq_encode(ssa1, ssa2) ==
    eq_process_statements(ssa2.statements, 2,
        eq_process_statements(ssa1.statements, 1,
            [variables1 |-> << >>, variables2 |-> << >>, solver |-> << >>,
             output_vars1 |-> [n \in {} |-> 0], output_vars2 |-> [n \in {} |-> 0]]))

\* The runs of check_equivalence: the tuple it returns (ok, examples,
\* counterexamples), with the models the solver returned, the one of the
\* example first and then the one of each counterexample.  set_order is the
\* iteration order of the set common_outputs.
check_equivalence_runs(ssa1, ssa2, set_order) ==
    LET enc == eq_encode(ssa1, ssa2)
        common_outputs ==
            SetIteration(DOMAIN enc.output_vars1 \cap DOMAIN enc.output_vars2, set_order)
        models == Models(enc.solver)
        equivalence_solver ==
            Append(enc.solver, inequivalence_constraint(enc, common_outputs))
        differing == Models(equivalence_solver)
        second(first) ==
            LET models2 == Models(Append(equivalence_solver,
                                eq_blocking_constraint(enc, common_outputs,
                                    eq_counterexample(enc, common_outputs, first))))
            IN IF models2 = {} THEN {<<first>>} ELSE {<<first, m>> : m \in models2}
        found == IF differing = {} THEN {<< >>} ELSE UNION {second(m) : m \in differing}
    IN IF models = {}
       THEN {[ok |-> TRUE, examples |-> << >>, counterexamples |-> << >>,
              models |-> << >>]}
       ELSE {[ok |-> Len(f) = 0,
              examples |-> <<eq_example(enc, common_outputs, model)>>,
              counterexamples |->
                    [i \in DOMAIN f |-> eq_counterexample(enc, common_outputs, f[i])],
              models |-> <<model>> \o f] :
                model \in models, f \in found}

check_equivalence(ssa1, ssa2, set_order) ==
    {[ok |-> run.ok, examples |-> run.examples, counterexamples |-> run.counterexamples] :
        run \in check_equivalence_runs(ssa1, ssa2, set_order)}

(***************************************************************************)
(* The input programs: the scenario programs of the documentation, and a   *)
(* family  var x := a; var y := 1; <statement>; assert <condition>;  over  *)
(* the constants 0..MaxConst.                                              *)
(***************************************************************************)
MaxConst == 2

MaxDepth == 2

X == Variable("x")

Y == Variable("y")

Num(n) == Constant(n)

\* The statement between the declarations and the final assert.
Bodies ==
    {<<Assignment("x", Num(1))>>,
     <<Assignment("x", BinaryOp(X, "+", Num(1)))>>,
     <<VarDecl("z", BinaryOp(X, "+", Y)), Assignment("x", BinaryOp(X, "+", Y))>>,
     <<If(BinaryOp(X, ">", Num(0)), <<Assignment("x", Num(2))>>, << >>)>>,
     <<If(BinaryOp(X, ">", Num(0)), <<Assignment("x", Num(1))>>,
          <<Assignment("x", Num(2))>>)>>,
     <<If(BinaryOp(X, ">", Num(0)), <<Assignment("y", Num(2))>>,
          <<Assignment("x", Num(2))>>)>>,
     <<If(BinaryOp(Y, ">", Num(1)), <<AssertStmt(BinaryOp(X, ">", Num(0)))>>,
          <<Assignment("x", Num(2))>>)>>,
     <<If(BinaryOp(X, ">", Num(0)),
          <<If(BinaryOp(Y, ">", Num(0)), <<Assignment("x", Y)>>, << >>)>>, << >>)>>,
     <<If(BinaryOp(X, ">", Num(0)), <<VarDecl("z", Num(1))>>, <<VarDecl("z", Num(2))>>),
       Assignment("x", Variable("z"))>>,
     <<While(BinaryOp(X, "<", Num(1)), <<Assignment("x", Y)>>)>>,
     <<While(BinaryOp(X, "<", Num(2)), <<Assignment("x", BinaryOp(X, "+", Num(1)))>>)>>,
     <<While(BinaryOp(X, "<", Num(1)),
             <<If(BinaryOp(Y, ">", Num(0)), <<Assignment("x", Y)>>,
                  <<Assignment("x", Num(1))>>)>>)>>,
     <<AssertStmt(BinaryOp(X, "==", Num(1))), AssertStmt(BinaryOp(X, ">=", Num(1)))>>,
     <<If(BinaryOp(X, ">", Num(0)), <<VarDecl("z", BinaryOp(X, "+", Y))>>, << >>),
       VarDecl("z", BinaryOp(X, "+", Y))>>,
     <<While(BinaryOp(X, "<", Num(1)),
             <<VarDecl("z", Y), Assignment("x", Variable("z"))>>)>>}

\* A loop inside a loop, and a loop inside an if.
LoopNests ==
    {<<While(BinaryOp(X, "<", Num(1)),
             <<While(BinaryOp(Y, "<", Num(2)), <<Assignment("y", Num(2))>>),
               Assignment("x", Y)>>)>>,
     <<If(BinaryOp(X, ">", Num(0)),
          <<While(BinaryOp(Y, "<", Num(2)), <<Assignment("y", Num(2))>>)>>, << >>)>>}

\* The condition of the final assert.
Checks ==
    {BinaryOp(X, "==", Num(1)), BinaryOp(X, ">=", Num(1)),
     BinaryOp(BinaryOp(X, "+", Y), "==", Num(2))}

Family(bodies) ==
    {<<VarDecl("x", Num(a)), VarDecl("y", Num(1))>> \o body \o <<AssertStmt(check)>> :
        a \in 0..MaxConst, body \in bodies, check \in Checks}

FamilyPrograms == Family(Bodies)

\* Scenario S1 of the documentation (the assert is z == 50).
ScenarioS1 ==
    <<VarDecl("x", Num(10)), VarDecl("y", Num(5)), VarDecl("z", Num(0)),
      While(BinaryOp(Y, ">", Num(0)),
            <<Assignment("z", BinaryOp(Variable("z"), "+", X)),
              Assignment("y", BinaryOp(Y, "-", Num(1)))>>),
      AssertStmt(BinaryOp(Variable("z"), "==", Num(50)))>>

\* Scenario S3: a variable declared in both branches of an if.
ScenarioS3 ==
    <<VarDecl("x", Num(3)),
      If(BinaryOp(X, "<", Num(5)), <<VarDecl("y", BinaryOp(X, "+", Num(1)))>>,
         <<VarDecl("y", BinaryOp(X, "-", Num(1)))>>),
      AssertStmt(BinaryOp(Y, ">", Num(0)))>>

\* Scenario S6 (the documentation runs it with depth 3).
ScenarioS6 ==
    <<VarDecl("x", Num(0)),
      While(BinaryOp(X, "<", Num(4)), <<Assignment("x", BinaryOp(X, "+", Num(1)))>>),
      AssertStmt(BinaryOp(X, "==", Num(4)))>>

Scenarios == {ScenarioS1, ScenarioS3, ScenarioS6}

\* Scenario S4: the two programs that are compared, the sum of 1..n by a
\* loop and by the closed formula.
ScenarioS4A ==
    <<VarDecl("n", Num(5)), VarDecl("s", Num(0)), VarDecl("i", Num(1)),
      While(BinaryOp(Variable("i"), "<=", Variable("n")),
            <<Assignment("s", BinaryOp(Variable("s"), "+", Variable("i"))),
              Assignment("i", BinaryOp(Variable("i"), "+", Num(1)))>>)>>

ScenarioS4B ==
    <<VarDecl("n", Num(5)),
      VarDecl("s", BinaryOp(BinaryOp(Variable("n"), "*",
                                     BinaryOp(Variable("n"), "+", Num(1))),
                            "/", Num(2)))>>

Programs == FamilyPrograms \cup Scenarios

NestedPrograms == Family(LoopNests)

\* for loops: for (var i := 0; i < 2; i := i + 1) { x := x + y; } and
\* for (x := 0; x < 2; x := x + 1) { y := x; } inside an if.
ForLoops ==
    {<<For(VarDecl("i", Num(0)), BinaryOp(Variable("i"), "<", Num(2)),
           Assignment("i", BinaryOp(Variable("i"), "+", Num(1))),
           <<Assignment("x", BinaryOp(X, "+", Y))>>)>>,
     <<If(BinaryOp(Y, ">", Num(0)),
          <<For(Assignment("x", Num(0)), BinaryOp(X, "<", Num(2)),
                Assignment("x", BinaryOp(X, "+", Num(1))),
                <<Assignment("y", X)>>)>>,
          << >>)>>}

ForPrograms == Family(ForLoops)

\* The depths the documentation runs the scenarios with.
ScenarioDepths == {3, 5}

\* The depths a program is unrolled to.
Depths(program) ==
    (0..MaxDepth) \cup (IF program \in Scenarios THEN ScenarioDepths ELSE {})

Optimizations ==
    {"Constant Propagation", "Dead Code Elimination", "Common Subexpression Elimination"}

\* The names a program mentions, and the orders a set of them can iterate in.
RECURSIVE ExprNames(_)
ExprNames(expr) ==
    CASE expr.k = "Variable" -> {expr.name}
      [] expr.k = "Constant" -> {}
      [] expr.k = "BinaryOp" -> ExprNames(expr.left) \cup ExprNames(expr.right)
      [] expr.k = "UnaryOp" -> ExprNames(expr.expr)

RECURSIVE ProgramNames(_)
ProgramNames(stmts) ==
    UNION {CASE stmts[i].k \in {"VarDecl", "Assignment"} ->
                    {stmts[i].name} \cup ExprNames(stmts[i].value)
             [] stmts[i].k = "While" ->
                    ExprNames(stmts[i].condition) \cup ProgramNames(stmts[i].body)
             [] stmts[i].k = "If" ->
                    ExprNames(stmts[i].condition) \cup ProgramNames(stmts[i].true_branch)
                        \cup ProgramNames(stmts[i].false_branch)
             [] stmts[i].k = "Assert" -> ExprNames(stmts[i].condition)
           : i \in DOMAIN stmts}

SetOrders(S) ==
    {o \in [1..Cardinality(S) -> S] : \A i, j \in DOMAIN o : i # j => o[i] # o[j]}

(***************************************************************************)
(* The verification run (app.py:551-574): parse_program has produced ast;  *)
(* convert_to_ssa, unroll_loops, optimize_ssa and check_assertion follow.  *)
(***************************************************************************)
VARIABLES pc, code, ast, depth, optimizations, ssa, unrolled, optimized, result,
          models, ast2, ssa2, unrolled2, optimized2

vars == <<pc, code, ast, depth, optimizations, ssa, unrolled, optimized, result,
          models, ast2, ssa2, unrolled2, optimized2>>

\* The second program of an equivalence run.
second == <<ast2, ssa2, unrolled2, optimized2>>

NoProgram == SSAProgram(<< >>, << >>)

NoResult == [ok |-> FALSE, examples |-> << >>, counterexamples |-> << >>]

\* A run with the given programs and lists of optimizations to choose from.
Start(programs, choices) ==
    /\ pc = "parsed"
    /\ code = << >>
    /\ ast \in programs
    /\ depth \in Depths(ast)
    /\ optimizations \in choices
    /\ ssa = NoProgram
    /\ unrolled = NoProgram
    /\ optimized = NoProgram
    /\ result = NoResult
    /\ models = << >>
    /\ ast2 = << >>
    /\ ssa2 = NoProgram
    /\ unrolled2 = NoProgram
    /\ optimized2 = NoProgram

\* No optimization is selected.
Init == Start(Programs, {{}})

\* The exception of convert_to_ssa ends the run: the ValueError of
\* ssa.py:270, or the AttributeError of ast.statements (ssa.py:273) when
\* parse_program has returned None.
Convert ==
    /\ pc \in {"parsed", "none"}
    /\ IF pc = "none" \/ Raises(ast)
       THEN pc' = "failed" /\ ssa' = ssa
       ELSE /\ \E set_order \in SetOrders(ProgramNames(ast)) :
                    ssa' = convert_to_ssa(ast, set_order)
            /\ pc' = "ssa"
    /\ UNCHANGED <<code, ast, depth, optimizations, unrolled, optimized, result, models, second>>

\* ssa is the object ssa_result after the call, unrolled the one returned.
Unroll ==
    /\ pc = "ssa"
    /\ LET call == unroll_loops_call(<<ssa>>, 1, depth)
       IN /\ unrolled' = call.heap[call.ref]
          /\ ssa' = call.heap[1]
    /\ pc' = "unrolled"
    /\ UNCHANGED <<code, ast, depth, optimizations, optimized, result, models, second>>

\* app.py:563-566: optimize_ssa is called when the list is not empty.
Optimize ==
    /\ pc = "unrolled"
    /\ IF optimizations # {}
       THEN LET call == optimize_ssa_call(<<unrolled>>, 1, optimizations)
            IN /\ optimized' = call.heap[call.ref]
               /\ unrolled' = call.heap[1]
       ELSE /\ optimized' = unrolled
            /\ unrolled' = unrolled
    /\ pc' = "optimized"
    /\ UNCHANGED <<code, ast, depth, optimizations, ssa, result, models, second>>

Check ==
    /\ pc = "optimized"
    /\ \E run \in check_assertion_runs(optimized) :
            /\ result' = [ok |-> run.ok, examples |-> run.examples,
                          counterexamples |-> run.counterexamples]
            /\ models' = run.models
    /\ pc' = "done"
    /\ UNCHANGED <<code, ast, depth, optimizations, ssa, unrolled, optimized, second>>

Next == Convert \/ Unroll \/ Optimize \/ Check

Spec == Init /\ [][Next]_vars

\* The run as far as the SSA forms that are displayed, with the programs
\* that nest loops and the programs with a for loop as well.
InitSSA == Start(Programs \cup NestedPrograms \cup ForPrograms, {{}})

NextSSA == Convert \/ Unroll

SpecSSA == InitSSA /\ [][NextSSA]_vars

\* The same run with any of the lists of optimizations selected.
InitOpt == Start(Programs, SUBSET Optimizations)

SpecOpt == InitOpt /\ [][Next]_vars

(***************************************************************************)
(* The equivalence run (app.py:765-792): both programs are converted,      *)
(* unrolled to the same depth and optimized, and check_equivalence         *)
(* compares them.                                                          *)
(***************************************************************************)
\* The programs compared: var x := a; var y := 1; <statement>.
EqBodies ==
    {<<Assignment("x", Num(1))>>,
     <<VarDecl("z", BinaryOp(X, "+", Y))>>,
     <<If(BinaryOp(X, ">", Num(0)), <<Assignment("x", Num(2))>>, << >>)>>,
     <<If(BinaryOp(X, ">", Num(0)), <<Assignment("x", Num(1))>>,
          <<Assignment("x", Num(2))>>)>>,
     <<If(BinaryOp(X, ">", Num(0)), <<Assignment("y", Num(2))>>,
          <<Assignment("x", Num(2))>>)>>,
     <<While(BinaryOp(X, "<", Num(1)), <<Assignment("x", Y)>>)>>,
     <<AssertStmt(BinaryOp(X, ">", Num(0)))>>}

EqPrograms ==
    {<<VarDecl("x", Num(a)), VarDecl("y", Num(1))>> \o body :
        a \in 0..MaxConst, body \in EqBodies}

\* The pairs compared: any two of the programs, and the pair of scenario S4.
EqPairs == (EqPrograms \X EqPrograms) \cup {<<ScenarioS4A, ScenarioS4B>>}

InitEq ==
    /\ pc = "parsed"
    /\ code = << >>
    /\ \E pair \in EqPairs : ast = pair[1] /\ ast2 = pair[2]
    /\ depth \in (0..MaxDepth) \cup (IF ast = ScenarioS4A THEN ScenarioDepths ELSE {})
    /\ optimizations = {}
    /\ ssa = NoProgram
    /\ unrolled = NoProgram
    /\ optimized = NoProgram
    /\ ssa2 = NoProgram
    /\ unrolled2 = NoProgram
    /\ optimized2 = NoProgram
    /\ result = NoResult
    /\ models = << >>

ConvertBoth ==
    /\ pc = "parsed"
    /\ \E set_order \in SetOrders(ProgramNames(ast)) :
            ssa' = convert_to_ssa(ast, set_order)
    /\ \E set_order \in SetOrders(ProgramNames(ast2)) :
            ssa2' = convert_to_ssa(ast2, set_order)
    /\ pc' = "ssa"
    /\ UNCHANGED <<code, ast, ast2, depth, optimizations, unrolled, unrolled2, optimized,
                   optimized2, result, models>>

UnrollBoth ==
    /\ pc = "ssa"
    /\ \E call1 \in {unroll_loops_call(<<ssa, ssa2>>, 1, depth)} :
       \E call2 \in {unroll_loops_call(call1.heap, 2, depth)} :
          /\ unrolled' = call2.heap[call1.ref]
          /\ unrolled2' = call2.heap[call2.ref]
          /\ ssa' = call2.heap[1]
          /\ ssa2' = call2.heap[2]
    /\ pc' = "unrolled"
    /\ UNCHANGED <<code, ast, ast2, depth, optimizations, optimized, optimized2,
                   result, models>>

OptimizeBoth ==
    /\ pc = "unrolled"
    /\ IF optimizations # {}
       THEN \E call1 \in {optimize_ssa_call(<<unrolled, unrolled2>>, 1, optimizations)} :
            \E call2 \in {optimize_ssa_call(call1.heap, 2, optimizations)} :
               /\ optimized' = call2.heap[call1.ref]
               /\ optimized2' = call2.heap[call2.ref]
               /\ unrolled' = call2.heap[1]
               /\ unrolled2' = call2.heap[2]
       ELSE /\ optimized' = unrolled
            /\ optimized2' = unrolled2
            /\ unrolled' = unrolled
            /\ unrolled2' = unrolled2
    /\ pc' = "optimized"
    /\ UNCHANGED <<code, ast, ast2, depth, optimizations, ssa, ssa2, result, models>>

CheckEquivalence ==
    /\ pc = "optimized"
    /\ \E set_order \in SetOrders(ProgramNames(ast) \cup ProgramNames(ast2)) :
        \E run \in check_equivalence_runs(optimized, optimized2, set_order) :
            /\ result' = [ok |-> run.ok, examples |-> run.examples,
                          counterexamples |-> run.counterexamples]
            /\ models' = run.models
    /\ pc' = "done"
    /\ UNCHANGED <<code, ast, ast2, depth, optimizations, ssa, ssa2, unrolled, unrolled2,
                   optimized, optimized2>>

NextEq == ConvertBoth \/ UnrollBoth \/ OptimizeBoth \/ CheckEquivalence

SpecEq == InitEq /\ [][NextEq]_vars

(***************************************************************************)
(* Properties of the SSA trees.                                            *)
(***************************************************************************)
\* The targets <<name, version>> of the defining statements (declarations,
\* assignments, Phi functions) of a tree, one entry per statement.
RECURSIVE Definitions(_)
Definitions(statements) ==
    IF statements = << >> THEN << >>
    ELSE LET stmt == Head(statements)
             this ==
                CASE stmt.k \in {"SSAVarDecl", "SSAAssignment", "SSAPhiFunction"} ->
                        << <<stmt.name, stmt.version>> >>
                  [] stmt.k = "SSAIf" ->
                        Definitions(stmt.true_branch) \o Definitions(stmt.false_branch)
                            \o Definitions(stmt.phi_functions)
                  [] stmt.k = "SSAWhile" ->
                        Definitions(stmt.phi_functions) \o Definitions(stmt.body)
                  [] OTHER -> << >>
         IN this \o Definitions(Tail(statements))

SingleAssignment(program) ==
    LET defs == Definitions(program.statements)
    IN \A i, j \in DOMAIN defs : i # j => defs[i] # defs[j]

\* The kinds of the statements of a tree, at every nesting level.
RECURSIVE StatementKinds(_)
StatementKinds(statements) ==
    UNION {{statements[i].k} \cup
           (CASE statements[i].k = "SSAIf" ->
                    StatementKinds(statements[i].true_branch)
                        \cup StatementKinds(statements[i].false_branch)
                        \cup StatementKinds(statements[i].phi_functions)
              [] statements[i].k = "SSAWhile" ->
                    StatementKinds(statements[i].phi_functions)
                        \cup StatementKinds(statements[i].body)
              [] OTHER -> {})
           : i \in DOMAIN statements}

\* A While directly or deeper inside the statements of a While or an If.
RECURSIVE HasNestedWhile(_)
HasNestedWhile(statements) ==
    \E i \in DOMAIN statements :
        \/ /\ statements[i].k = "SSAWhile"
           /\ "SSAWhile" \in StatementKinds(statements[i].body)
        \/ /\ statements[i].k = "SSAIf"
           /\ "SSAWhile" \in StatementKinds(statements[i].true_branch)

Converted == pc \in {"ssa", "unrolled", "optimized", "done"}

Unrolled == pc \in {"unrolled", "optimized", "done"}

(***************************************************************************)
(* C4: in every SSA program produced by convert_to_ssa, each pair          *)
(* (name, version) is the target of exactly one defining statement         *)
(* (declaration, assignment or Phi function) of the whole tree.            *)
(***************************************************************************)
C4_SingleAssignmentAfterConvert == Converted => SingleAssignment(ssa)

(***************************************************************************)
(* C5: unroll_loops preserves single assignment: when every                *)
(* (name, version) has exactly one defining statement in its input, the    *)
(* same holds of its output, for every depth.                              *)
(***************************************************************************)
C5_UnrollPreservesSingleAssignment ==
    Unrolled /\ SingleAssignment(ssa) => SingleAssignment(unrolled)

(***************************************************************************)
(* C6: the output of unroll_loops holds no While at any nesting level; it  *)
(* holds only If, declaration, assignment, Phi and assert statements.      *)
(***************************************************************************)
C6_NoWhileAfterUnroll ==
    Unrolled =>
        StatementKinds(unrolled.statements) \subseteq
            {"SSAIf", "SSAVarDecl", "SSAAssignment", "SSAPhiFunction", "SSAAssert"}

\* A program with a loop inside a loop or inside an If has been unrolled to
\* a depth at which the inner loop is itself unrolled.
C6_Witness ==
    /\ pc = "unrolled"
    /\ HasNestedWhile(ssa.statements)
    /\ depth >= 2
    /\ "SSAIf" \in StatementKinds(unrolled.statements)

(***************************************************************************)
(* The source language: the execution of a program whose variables are all *)
(* declared with constants.  st holds the values of the variables, whether *)
(* every assert reached so far was true, and whether every loop run so far *)
(* exited within the given number of iterations.                           *)
(***************************************************************************)
RECURSIVE Value(_, _)
Value(expr, env) ==
    CASE expr.k = "Variable" -> env[expr.name]
      [] expr.k = "Constant" -> expr.value
      [] expr.k = "UnaryOp" ->
            IF expr.op = "-" THEN 0 - Value(expr.expr, env) ELSE ~Value(expr.expr, env)
      [] expr.k = "BinaryOp" ->
            LET l == Value(expr.left, env)
                r == Value(expr.right, env)
            IN CASE expr.op = "+" -> l + r
                 [] expr.op = "-" -> l - r
                 [] expr.op = "*" -> l * r
                 [] expr.op = "==" -> l = r
                 [] expr.op = "!=" -> l # r
                 [] expr.op = "<" -> l < r
                 [] expr.op = ">" -> l > r
                 [] expr.op = "<=" -> l <= r
                 [] expr.op = ">=" -> l >= r
                 [] expr.op = "and" -> l /\ r
                 [] expr.op = "or" -> l \/ r

RECURSIVE Execute(_, _, _)
RECURSIVE Iterate(_, _, _, _)
Execute(stmts, st, bound) ==
    IF stmts = << >> \/ ~st.loops_exit THEN st
    ELSE LET stmt == Head(stmts)
             next ==
                CASE stmt.k \in {"VarDecl", "Assignment"} ->
                        [st EXCEPT !.env = (stmt.name :> Value(stmt.value, st.env)) @@ @]
                  [] stmt.k = "Assert" ->
                        [st EXCEPT !.asserts_hold = @ /\ Value(stmt.condition, st.env)]
                  [] stmt.k = "If" ->
                        IF Value(stmt.condition, st.env)
                        THEN Execute(stmt.true_branch, st, bound)
                        ELSE Execute(stmt.false_branch, st, bound)
                  [] stmt.k = "While" -> Iterate(stmt, st, bound, bound)
         IN Execute(Tail(stmts), next, bound)

\* The loop stmt with left iterations left to it.
Iterate(stmt, st, left, bound) ==
    IF ~st.loops_exit \/ ~Value(stmt.condition, st.env) THEN st
    ELSE IF left = 0 THEN [st EXCEPT !.loops_exit = FALSE]
    ELSE Iterate(stmt, Execute(stmt.body, st, bound), left - 1, bound)

Executed(program, bound) ==
    Execute(program, [env |-> [n \in {} |-> 0], asserts_hold |-> TRUE, loops_exit |-> TRUE],
            bound)

\* Every loop exits within bound iterations and every assert reached is true.
HoldsWithin(program, bound) ==
    LET st == Executed(program, bound) IN st.loops_exit /\ st.asserts_hold

\* The constant of a model that carries the highest version of a name.
HighestVersion(model, name) ==
    CHOOSE v \in DOMAIN model :
        /\ base_name(v) = name
        /\ \A w \in DOMAIN model : base_name(w) = name => w.version <= v.version

Done == pc = "done"

\* The verdicts check_assertion can return for a program.
Verdicts(program) == {run.ok : run \in check_assertion(program)}

(***************************************************************************)
(* C1: for every program and depth d, the verification pipeline returns    *)
(* ok = true exactly when, executing the program under the source          *)
(* semantics, every loop exits within d iterations and every assert that   *)
(* is reached is true.                                                     *)
(***************************************************************************)
C1_VerdictIsSourceSemantics ==
    Done /\ optimizations = {} => (result.ok <=> HoldsWithin(ast, depth))

(***************************************************************************)
(* C8: every example and counterexample of check_assertion maps each base  *)
(* name to the value the model gives the highest version of that name.     *)
(***************************************************************************)
C8_ValuesOfHighestVersion ==
    Done =>
        LET reported == result.examples \o result.counterexamples
        IN \A i \in DOMAIN reported : \A name \in DOMAIN reported[i] :
                reported[i][name] = models[i][HighestVersion(models[i], name)]

(***************************************************************************)
(* C9: the SSA text of a program and depth does not depend on the order in *)
(* which the set of the variables an If modifies is iterated, and neither  *)
(* does the verdict.                                                       *)
(***************************************************************************)
C9_Deterministic ==
    pc = "unrolled" =>
        \A set_order \in SetOrders(ProgramNames(ast)) :
            LET again == convert_to_ssa(ast, set_order)
                other == unroll_loops(again, depth)
            IN /\ program_to_string(again) = program_to_string(ssa)
               /\ program_to_string(other) = program_to_string(unrolled)
               /\ Verdicts(other) = Verdicts(unrolled)

(***************************************************************************)
(* C10: scenario S1 with depth 5 and no optimization returns ok = true     *)
(* and an example that maps z to 50.                                       *)
(***************************************************************************)
C10_ScenarioS1 ==
    Done /\ ast = ScenarioS1 /\ depth = 5 /\ optimizations = {} =>
        /\ result.ok
        /\ Len(result.examples) = 1
        /\ "z" \in DOMAIN result.examples[1]
        /\ result.examples[1]["z"] = 50

(***************************************************************************)
(* C2: for every program, depth and list of optimizations, check_assertion *)
(* returns for the optimized program the verdict it returns for the        *)
(* unrolled program that was not optimized.                                *)
(***************************************************************************)
C2_OptimizerConservative == Done => Verdicts(unrolled) = {result.ok}

(***************************************************************************)
(* C3: equivalence is reflexive: for a program compared with itself, at a  *)
(* depth within which every one of its loops exits, check_equivalence      *)
(* returns ok = true and no counterexample.                                *)
(***************************************************************************)
C3_EquivalenceReflexive ==
    Done /\ ast2 = ast /\ ssa2 = ssa /\ Executed(ast, depth).loops_exit =>
        result.ok /\ result.counterexamples = << >>

(***************************************************************************)
(* C7: every counterexample of check_equivalence holds a common output     *)
(* whose pair of values differs, the values being those the model gives    *)
(* the highest versions of the variable in program 1 and in program 2.     *)
(***************************************************************************)
C7_CounterexampleDiffers ==
    Done =>
        \A i \in DOMAIN result.counterexamples :
            LET counterexample == result.counterexamples[i]
                model == models[i + 1]
                enc == eq_encode(optimized, optimized2)
            IN \E name \in DOMAIN counterexample :
                    /\ counterexample[name][1] # counterexample[name][2]
                    /\ counterexample[name] =
                            <<model[output_var1(enc, name)], model[output_var2(enc, name)]>>

(***************************************************************************)
(* C11: scenario S6 with depth 3 and no optimization returns ok = false    *)
(* and a counterexample that maps x to 3.                                  *)
(***************************************************************************)
C11_ScenarioS6 ==
    Done /\ ast = ScenarioS6 /\ depth = 3 /\ optimizations = {} =>
        /\ ~result.ok
        /\ \E i \in DOMAIN result.counterexamples :
                /\ "x" \in DOMAIN result.counterexamples[i]
                /\ result.counterexamples[i]["x"] = 3

(***************************************************************************)
(* C14: whenever check_assertion returns ok = true, examples holds exactly *)
(* one assignment, taken from a model of the program's constraints; ok =   *)
(* true is never returned with an empty list of examples.                  *)
(***************************************************************************)
C14_OkHasOneExample ==
    Done /\ result.ok =>
        /\ Len(result.examples) = 1
        /\ Len(models) = 1
        /\ LET enc == encode(optimized)
           IN /\ \A i \in DOMAIN enc.solver : Eval(enc.solver[i], models[1])
              /\ result.examples[1] = extract(enc.variables, models[1])

(***************************************************************************)
(* C13: check_assertion returns at most two counterexamples, however many  *)
(* assertions of the program fail.                                         *)
(***************************************************************************)
C13_AtMostTwoCounterexamples ==
    Done => Len(result.counterexamples) <= 2

(***************************************************************************)
(* C18: unroll_loops replaces a While at depth 0 by Assert(not c) and at   *)
(* depth d > 0 by a single If(c, T, [], []) whose true branch T is the     *)
(* Phi functions and the body unrolled at d - 1 followed by the unrolling  *)
(* of the whole loop at d - 1: the d copies and the final Assert(not c)    *)
(* are nested in one another, none is placed after the If.                 *)
(***************************************************************************)
C18_UnrollingIsNested ==
    LET RECURSIVE nested(_, _)
        nested(statements, d) ==
            IF statements = << >>
            THEN << >>
            ELSE LET stmt == Head(statements)
                     this ==
                        CASE stmt.k = "SSAWhile" ->
                                IF d <= 0
                                THEN <<SSAAssert(SSAUnaryOp("not", stmt.condition))>>
                                ELSE <<SSAIf(stmt.condition,
                                             nested(stmt.phi_functions \o stmt.body, d - 1)
                                                \o nested(<<stmt>>, d - 1),
                                             << >>, << >>)>>
                          [] stmt.k = "SSAIf" ->
                                <<SSAIf(stmt.condition,
                                        nested(stmt.true_branch, d),
                                        nested(stmt.false_branch, d),
                                        stmt.phi_functions)>>
                          [] OTHER -> <<stmt>>
                 IN this \o nested(Tail(statements), d)
    IN Unrolled => unrolled.statements = nested(ssa.statements, depth)

\* The statements of a tree, at every nesting level.
RECURSIVE Statements(_)
Statements(statements) ==
    UNION {{statements[i]} \cup
           (CASE statements[i].k = "SSAIf" ->
                    Statements(statements[i].true_branch)
                        \cup Statements(statements[i].false_branch)
              [] statements[i].k = "SSAWhile" -> Statements(statements[i].body)
              [] OTHER -> {})
           : i \in DOMAIN statements}

\* The names the statements define, at every nesting level.
Written(statements) ==
    {Definitions(statements)[i][1] : i \in DOMAIN Definitions(statements)}

\* The version of the last definition of name in the statements.
LastVersion(statements, name) ==
    LET defs == Definitions(statements)
        last == CHOOSE i \in DOMAIN defs :
                    /\ defs[i][1] = name
                    /\ \A j \in DOMAIN defs : defs[j][1] = name => j <= i
    IN defs[last][2]

PhiNames(stmt) == {stmt.phi_functions[i].name : i \in DOMAIN stmt.phi_functions}

(***************************************************************************)
(* C19: in every If produced by convert_to_ssa the list of Phi functions   *)
(* holds a Phi for v exactly when v is declared or assigned in the true or *)
(* the false branch (also when both branches write v the same number of    *)
(* times, and when v is first declared inside a branch), and the sources   *)
(* of the Phi are the last version of v on the true edge and the last      *)
(* version of v on the false edge.                                         *)
(***************************************************************************)
C19_IfPhiForEveryWrittenVariable ==
    Converted =>
        \A stmt \in Statements(ssa.statements) :
            stmt.k = "SSAIf" =>
                /\ PhiNames(stmt) = Written(stmt.true_branch) \cup Written(stmt.false_branch)
                /\ \A i \in DOMAIN stmt.phi_functions :
                        LET phi == stmt.phi_functions[i]
                        IN /\ Len(phi.sources) = 2
                           /\ phi.name \in Written(stmt.true_branch) =>
                                phi.sources[1] =
                                    <<phi.name, LastVersion(stmt.true_branch, phi.name)>>
                           /\ phi.name \in Written(stmt.false_branch) =>
                                phi.sources[2] =
                                    <<phi.name, LastVersion(stmt.false_branch, phi.name)>>

(***************************************************************************)
(* C20: in every While produced by convert_to_ssa the list of header Phi   *)
(* functions holds a Phi for v exactly when v is declared or assigned      *)
(* somewhere in the body, variables first declared inside the body         *)
(* included.                                                               *)
(***************************************************************************)
C20_WhilePhiForEveryWrittenVariable ==
    Converted =>
        \A stmt \in Statements(ssa.statements) :
            stmt.k = "SSAWhile" => PhiNames(stmt) = Written(stmt.body)

(***************************************************************************)
(* C12: scenario S4 with depth 5 and no optimization makes                 *)
(* check_equivalence return ok = true with one example that maps n to 5    *)
(* and s to 15; and whenever check_equivalence returns ok = true it        *)
(* returns exactly one example, read from a model of the constraints of    *)
(* both programs.                                                          *)
(***************************************************************************)
C12_ScenarioS4 ==
    /\ Done /\ ast = ScenarioS4A /\ ast2 = ScenarioS4B /\ depth = 5 =>
            /\ result.ok
            /\ Len(result.examples) = 1
            /\ {"n", "s"} \subseteq DOMAIN result.examples[1]
            /\ result.examples[1]["n"] = 5
            /\ result.examples[1]["s"] = 15
    /\ Done /\ result.ok =>
            /\ Len(result.examples) = 1
            /\ Len(models) = 1
            /\ LET enc == eq_encode(optimized, optimized2)
               IN \A i \in DOMAIN enc.solver : Eval(enc.solver[i], models[1])

(***************************************************************************)
(* C16: a for loop For(init, c, upd, B) is desugared: convert_to_ssa does  *)
(* not fail on it and yields the SSA program it yields for                 *)
(* init; while (c) { B; upd }.                                             *)
(***************************************************************************)
C16_ForIsDesugared ==
    LET RECURSIVE desugared(_)
        desugared(stmts) ==
            IF stmts = << >>
            THEN << >>
            ELSE LET stmt == Head(stmts)
                     this ==
                        CASE stmt.k = "For" ->
                                <<stmt.init,
                                  While(stmt.condition,
                                        desugared(stmt.body) \o <<stmt.update>>)>>
                          [] stmt.k = "While" ->
                                <<While(stmt.condition, desugared(stmt.body))>>
                          [] stmt.k = "If" ->
                                <<If(stmt.condition, desugared(stmt.true_branch),
                                     desugared(stmt.false_branch))>>
                          [] OTHER -> <<stmt>>
                 IN this \o desugared(Tail(stmts))
    IN pc # "parsed" /\ ast \in ForPrograms =>
            /\ pc # "failed"
            /\ \E set_order \in SetOrders(ProgramNames(desugared(ast))) :
                    ssa = convert_to_ssa(desugared(ast), set_order)

(***************************************************************************)
(* C17: unroll_loops, optimize_ssa and each of the three passes leave the  *)
(* SSAProgram they are given unchanged: after the call its statement tree  *)
(* and its var_versions are what they were before.                         *)
(***************************************************************************)
C17_InputUnchanged ==
    [][/\ pc = "ssa" => ssa' = ssa
       /\ pc = "unrolled" =>
            /\ unrolled' = unrolled
            /\ constant_propagation_call(<<unrolled>>, 1).heap[1] = unrolled
            /\ dead_code_elimination_call(<<unrolled>>, 1).heap[1] = unrolled
            /\ common_subexpression_elimination_call(<<unrolled>>, 1).heap[1] = unrolled
       /\ pc = "optimized" =>
            /\ constant_propagation_call(<<optimized>>, 1).heap[1] = optimized
            /\ dead_code_elimination_call(<<optimized>>, 1).heap[1] = optimized
            /\ common_subexpression_elimination_call(<<optimized>>, 1).heap[1] = optimized
      ]_vars

\* A run in which common subexpression elimination has rewritten the
\* program it was given a copy of.
C17_Witness ==
    /\ pc = "optimized"
    /\ "Common Subexpression Elimination" \in optimizations
    /\ optimized # unrolled
    /\ "SSAIf" \in StatementKinds(unrolled.statements)

(***************************************************************************)
(* The lexer and the parser (parser.py).  The source text is the sequence  *)
(* of its lexemes: the text of one token each, or one character that no    *)
(* token rule matches.  The grammar is followed for declarations,          *)
(* assignments and asserts, with the whole of the expression grammar.      *)
(***************************************************************************)
reserved ==
    ("var" :> "VAR") @@ ("while" :> "WHILE") @@ ("for" :> "FOR") @@ ("if" :> "IF")
        @@ ("else" :> "ELSE") @@ ("assert" :> "ASSERT") @@ ("and" :> "AND")
        @@ ("or" :> "OR") @@ ("not" :> "NOT")

\* The simple token rules t_PLUS .. t_NE.
simple_tokens ==
    ("+" :> "PLUS") @@ ("-" :> "MINUS") @@ ("*" :> "TIMES") @@ ("/" :> "DIVIDE")
        @@ ("%" :> "MOD") @@ ("=" :> "ASSIGN") @@ (":=" :> "COLON_EQ")
        @@ ("(" :> "LPAREN") @@ (")" :> "RPAREN") @@ ("{" :> "LBRACE")
        @@ ("}" :> "RBRACE") @@ (";" :> "SEMICOLON") @@ ("==" :> "EQ")
        @@ ("<" :> "LT") @@ (">" :> "GT") @@ ("<=" :> "LE") @@ (">=" :> "GE")
        @@ ("!=" :> "NE")

\* The lexemes t_IDENTIFIER matches besides the reserved words.
Identifiers == {"x", "y", "z"}

\* The lexemes t_NUMBER matches, with int(t.value).
Numbers == [lexeme \in {ToString(n) : n \in 0..9} |->
                CHOOSE n \in 0..9 : ToString(n) = lexeme]

\* The token of a lexeme; type "error" when t_error is called for it.
token_of(lexeme) ==
    IF lexeme \in DOMAIN reserved THEN [type |-> reserved[lexeme], value |-> lexeme]
    ELSE IF lexeme \in Identifiers THEN [type |-> "IDENTIFIER", value |-> lexeme]
    ELSE IF lexeme \in DOMAIN Numbers THEN [type |-> "NUMBER", value |-> Numbers[lexeme]]
    ELSE IF lexeme \in DOMAIN simple_tokens
         THEN [type |-> simple_tokens[lexeme], value |-> lexeme]
    ELSE [type |-> "error", value |-> lexeme]

\* The tokens the lexer hands to the parser: t_error skips the character
\* and the lexer goes on with the next one.
lexer(text) ==
    SelectSeq([i \in DOMAIN text |-> token_of(text[i])], LAMBDA t : t.type # "error")

\* The outcome of a grammar rule from token i on: the node it builds and the
\* token after it, or the token no action is defined for (Len + 1: the end).
Built(node, next) == [ok |-> TRUE, node |-> node, next |-> next]

SyntaxError(i) == [ok |-> FALSE, node |-> << >>, next |-> i]

TokenIs(tokens, i, types) == i <= Len(tokens) /\ tokens[i].type \in types

\* atomic : IDENTIFIER | NUMBER | LPAREN expression RPAREN
RECURSIVE p_expression(_, _)
p_atomic_RPAREN(tokens, inner) ==
    IF ~inner.ok THEN inner
    ELSE IF TokenIs(tokens, inner.next, {"RPAREN"})
         THEN Built(inner.node, inner.next + 1)
         ELSE SyntaxError(inner.next)

p_atomic(tokens, i) ==
    IF TokenIs(tokens, i, {"IDENTIFIER"}) THEN Built(Variable(tokens[i].value), i + 1)
    ELSE IF TokenIs(tokens, i, {"NUMBER"}) THEN Built(Constant(tokens[i].value), i + 1)
    ELSE IF TokenIs(tokens, i, {"LPAREN"})
         THEN p_atomic_RPAREN(tokens, p_expression(tokens, i + 1))
    ELSE SyntaxError(i)

\* comparison : comparison EQ atomic | .. | comparison OR atomic | atomic,
\* from the operator at i on: the eight operators share the one rule, and
\* the operand to the right of each is an atomic.
RECURSIVE p_comparison(_, _, _)
p_comparison_atomic(tokens, left, i, right) ==
    IF right.ok
    THEN p_comparison(tokens, BinaryOp(left, tokens[i].value, right.node), right.next)
    ELSE right

p_comparison(tokens, left, i) ==
    IF TokenIs(tokens, i, {"EQ", "NE", "LT", "GT", "LE", "GE", "AND", "OR"})
    THEN p_comparison_atomic(tokens, left, i, p_atomic(tokens, i + 1))
    ELSE Built(left, i)

\* primary : comparison, after the first atomic of the comparison.
p_primary(tokens, first) ==
    IF first.ok THEN p_comparison(tokens, first.node, first.next) ELSE first

\* factor : primary | NOT primary | MINUS primary
p_factor_unary(op, primary) ==
    IF primary.ok THEN Built(UnaryOp(op, primary.node), primary.next) ELSE primary

p_factor(tokens, i) ==
    IF TokenIs(tokens, i, {"NOT", "MINUS"})
    THEN p_factor_unary(tokens[i].value, p_primary(tokens, p_atomic(tokens, i + 1)))
    ELSE p_primary(tokens, p_atomic(tokens, i))

\* term : factor | term TIMES factor | term DIVIDE factor | term MOD factor,
\* from the operator at i on.
RECURSIVE p_term(_, _, _)
p_term_factor(tokens, left, i, right) ==
    IF right.ok
    THEN p_term(tokens, BinaryOp(left, tokens[i].value, right.node), right.next)
    ELSE right

p_term(tokens, left, i) ==
    IF TokenIs(tokens, i, {"TIMES", "DIVIDE", "MOD"})
    THEN p_term_factor(tokens, left, i, p_factor(tokens, i + 1))
    ELSE Built(left, i)

p_term_first(tokens, first) ==
    IF first.ok THEN p_term(tokens, first.node, first.next) ELSE first

\* expression : term | expression PLUS term | expression MINUS term, from
\* the operator at i on.
RECURSIVE p_expression_rest(_, _, _)
p_expression_term(tokens, left, i, right) ==
    IF right.ok
    THEN p_expression_rest(tokens, BinaryOp(left, tokens[i].value, right.node),
                           right.next)
    ELSE right

p_expression_rest(tokens, left, i) ==
    IF TokenIs(tokens, i, {"PLUS", "MINUS"})
    THEN p_expression_term(tokens, left, i,
                           p_term_first(tokens, p_factor(tokens, i + 1)))
    ELSE Built(left, i)

p_expression_first(tokens, first) ==
    IF first.ok THEN p_expression_rest(tokens, first.node, first.next) ELSE first

p_expression(tokens, i) ==
    p_expression_first(tokens, p_term_first(tokens, p_factor(tokens, i)))

\* The SEMICOLON that ends the three statements, after their expression.
SEMICOLON(tokens, value) ==
    IF ~value.ok THEN value
    ELSE IF TokenIs(tokens, value.next, {"SEMICOLON"})
         THEN Built(value.node, value.next + 1)
         ELSE SyntaxError(value.next)

p_expression_semicolon(tokens, i) == SEMICOLON(tokens, p_expression(tokens, i))

\* var_declaration : VAR IDENTIFIER ASSIGN expression SEMICOLON
\*                 | VAR IDENTIFIER COLON_EQ expression SEMICOLON
p_var_declaration(tokens, i, value) ==
    IF value.ok THEN Built(VarDecl(tokens[i + 1].value, value.node), value.next)
    ELSE value

\* assignment : IDENTIFIER ASSIGN expression SEMICOLON
\*            | IDENTIFIER COLON_EQ expression SEMICOLON
p_assignment(tokens, i, value) ==
    IF value.ok THEN Built(Assignment(tokens[i].value, value.node), value.next)
    ELSE value

\* assert_statement : ASSERT expression SEMICOLON
p_assert_statement(condition) ==
    IF condition.ok THEN Built(AssertStmt(condition.node), condition.next)
    ELSE condition

p_statement(tokens, i) ==
    IF TokenIs(tokens, i, {"VAR"})
    THEN IF ~TokenIs(tokens, i + 1, {"IDENTIFIER"}) THEN SyntaxError(i + 1)
         ELSE IF ~TokenIs(tokens, i + 2, {"ASSIGN", "COLON_EQ"}) THEN SyntaxError(i + 2)
         ELSE p_var_declaration(tokens, i, p_expression_semicolon(tokens, i + 3))
    ELSE IF TokenIs(tokens, i, {"IDENTIFIER"})
    THEN IF ~TokenIs(tokens, i + 1, {"ASSIGN", "COLON_EQ"}) THEN SyntaxError(i + 1)
         ELSE p_assignment(tokens, i, p_expression_semicolon(tokens, i + 2))
    ELSE IF TokenIs(tokens, i, {"ASSERT"})
    THEN p_assert_statement(p_expression_semicolon(tokens, i + 1))
    ELSE SyntaxError(i)

\* statements : statement | statement statements.
RECURSIVE p_statements(_, _)
p_statements_rest(first, rest) ==
    IF rest.ok THEN Built(<<first.node>> \o rest.node, rest.next) ELSE rest

p_statements_first(tokens, first) ==
    IF ~first.ok THEN first
    ELSE IF first.next > Len(tokens) THEN Built(<<first.node>>, first.next)
    ELSE p_statements_rest(first, p_statements(tokens, first.next))

p_statements(tokens, i) == p_statements_first(tokens, p_statement(tokens, i))

\* parser.parse with p_error, which prints and returns (parser.py:258-262),
\* and a grammar without error rules: at the end of the input the parser
\* returns None; at any other token it unwinds its stack, drops the token
\* and starts again from its initial state with the token after it.
RECURSIVE yacc_parse(_)
p_error(tokens, program) ==
    IF program.ok THEN [program |-> TRUE, statements |-> program.node]
    ELSE IF program.next > Len(tokens) THEN [program |-> FALSE, statements |-> << >>]
    ELSE yacc_parse(SubSeq(tokens, program.next + 1, Len(tokens)))

yacc_parse(tokens) == p_error(tokens, p_statements(tokens, 1))

parse_program(text) == yacc_parse(lexer(text))

\* The texts: var x := a; assert x == 1; as it is, with one character that
\* is no token put in, or with one lexeme left out.
Sources ==
    {<<"var", "x", ":=", ToString(a), ";", "assert", "x", "==", "1", ";">> :
        a \in 0..MaxConst}

Texts ==
    UNION {{text}
            \cup {SubSeq(text, 1, i) \o <<"$">> \o SubSeq(text, i + 1, Len(text)) :
                    i \in 0..Len(text)}
            \cup {SubSeq(text, 1, i - 1) \o SubSeq(text, i + 1, Len(text)) :
                    i \in 1..Len(text)}
           : text \in Sources}

(***************************************************************************)
(* The verification run from the source text on (app.py:551-574).          *)
(***************************************************************************)
InitParse ==
    /\ pc = "start"
    /\ code \in Texts
    /\ ast = << >>
    /\ depth \in 0..MaxDepth
    /\ optimizations = {}
    /\ ssa = NoProgram
    /\ unrolled = NoProgram
    /\ optimized = NoProgram
    /\ result = NoResult
    /\ models = << >>
    /\ ast2 = << >>
    /\ ssa2 = NoProgram
    /\ unrolled2 = NoProgram
    /\ optimized2 = NoProgram

\* ast is the Program parse_program returns; pc is "none" when it returns
\* None.
Parse ==
    /\ pc = "start"
    /\ LET parsed == parse_program(code)
       IN /\ ast' = parsed.statements
          /\ pc' = IF parsed.program THEN "parsed" ELSE "none"
    /\ UNCHANGED <<code, depth, optimizations, ssa, unrolled, optimized, result, models,
                   second>>

NextParse == Parse \/ Convert \/ Unroll \/ Optimize \/ Check

SpecParse == InitParse /\ [][NextParse]_vars

(***************************************************************************)
(* C15: errors are fail-fast.  When the text holds a character outside the *)
(* token set or violates the grammar, parse_program reports a parse error  *)
(* and there is no AST, no SSA program and no verdict: the lexer and the   *)
(* parser never skip the offending input and go on.                        *)
(***************************************************************************)
C15_ParseErrorsFailFast ==
    LET illegal == \E i \in DOMAIN code : token_of(code[i]).type = "error"
        violation == ~p_statements(lexer(code), 1).ok
    IN pc # "start" /\ (illegal \/ violation) =>
            pc \notin {"parsed", "ssa", "unrolled", "optimized", "done"}

(***************************************************************************)
(* Dominance in statement order.  defined holds the targets whose          *)
(* defining statement has been executed on every path to the statement at  *)
(* hand; all holds every target the program defines.  A use in a           *)
(* right-hand side, a condition or an assert must be in defined; a Phi     *)
(* source is accepted when the program defines it at all, since its        *)
(* definition lies on one incoming edge only.                              *)
(***************************************************************************)
PhiSources(stmt) ==
    {<<stmt.sources[i][1], stmt.sources[i][2]>> : i \in DOMAIN stmt.sources}

Targets(statements) ==
    {Definitions(statements)[i] : i \in DOMAIN Definitions(statements)}

RECURSIVE Dominated(_, _, _)
Dominated(statements, defined, all) ==
    IF statements = << >> THEN [ok |-> TRUE, defined |-> defined]
    ELSE LET stmt == Head(statements)
             this ==
                CASE stmt.k \in {"SSAVarDecl", "SSAAssignment"} ->
                        [ok |-> find_used_vars(stmt.value) \subseteq defined,
                         defined |-> defined \cup {<<stmt.name, stmt.version>>}]
                  [] stmt.k = "SSAPhiFunction" ->
                        [ok |-> PhiSources(stmt) \subseteq all,
                         defined |-> defined \cup {<<stmt.name, stmt.version>>}]
                  [] stmt.k = "SSAAssert" ->
                        [ok |-> find_used_vars(stmt.condition) \subseteq defined,
                         defined |-> defined]
                  [] stmt.k = "SSAIf" ->
                        LET t == Dominated(stmt.true_branch, defined, all)
                            f == Dominated(stmt.false_branch, defined, all)
                            p == Dominated(stmt.phi_functions,
                                           t.defined \cap f.defined, all)
                        IN [ok |-> /\ find_used_vars(stmt.condition) \subseteq defined
                                   /\ t.ok /\ f.ok /\ p.ok,
                            defined |-> p.defined]
                  [] stmt.k = "SSAWhile" ->
                        LET p == Dominated(stmt.phi_functions, defined, all)
                            b == Dominated(stmt.body, p.defined, all)
                        IN [ok |-> /\ find_used_vars(stmt.condition) \subseteq p.defined
                                   /\ p.ok /\ b.ok,
                            defined |-> p.defined]
             rest == Dominated(Tail(statements), this.defined, all)
         IN [ok |-> this.ok /\ rest.ok, defined |-> rest.defined]

(***************************************************************************)
(* C21: in the output of convert_to_ssa and in the output of unroll_loops  *)
(* every use of name_k (in a right-hand side, a condition, an assert or    *)
(* as a Phi source) is dominated by the defining statement of name_k in    *)
(* SSA statement order.                                                    *)
(***************************************************************************)
C21_UsesAreDominated ==
    /\ Converted => Dominated(ssa.statements, {}, Targets(ssa.statements)).ok
    /\ Unrolled =>
            Dominated(unrolled.statements, {}, Targets(unrolled.statements)).ok

\* The variable names of the input programs in ascending lexicographic
\* order, and the place of a name in it.
SortedNames == <<"i", "n", "s", "x", "y", "z">>

NameRank(name) == CHOOSE r \in DOMAIN SortedNames : SortedNames[r] = name

(***************************************************************************)
(* C22: in every Phi list produced by convert_to_ssa, at If merges and at  *)
(* While headers, the Phi functions appear in ascending lexicographic      *)
(* order of variable name, whatever the order in which the variables were  *)
(* declared or written.                                                    *)
(***************************************************************************)
C22_PhiOrderIsLexicographic ==
    Converted =>
        \A stmt \in Statements(ssa.statements) :
            stmt.k \in {"SSAIf", "SSAWhile"} =>
                \A i, j \in DOMAIN stmt.phi_functions :
                    i < j => NameRank(stmt.phi_functions[i].name)
                                < NameRank(stmt.phi_functions[j].name)

(***************************************************************************)
(* C23: in constant_propagation an If whose condition folds to a literal   *)
(* is replaced, in place in the statement list that holds it (the top      *)
(* level or a branch of another If), by the propagated statements of the   *)
(* branch that is taken, and is removed when the literal is false and      *)
(* there is no else branch; so every element of every statement list of    *)
(* the output is a single SSA statement, never a nested list.              *)
(***************************************************************************)
C23_FoldedIfIsReplacedInPlace ==
    pc = "unrolled" =>
        "list" \notin StatementKinds(constant_propagation(unrolled).statements)

\* The <<name, version>> pairs a tree uses: in right-hand sides, If and
\* While conditions, assert conditions and Phi sources, at every nesting
\* level, the Phi lists of If and While nodes included.
RECURSIVE Uses(_)
Uses(statements) ==
    UNION {CASE statements[i].k \in {"SSAVarDecl", "SSAAssignment"} ->
                    find_used_vars(statements[i].value)
             [] statements[i].k = "SSAPhiFunction" -> PhiSources(statements[i])
             [] statements[i].k = "SSAAssert" -> find_used_vars(statements[i].condition)
             [] statements[i].k = "SSAIf" ->
                    find_used_vars(statements[i].condition)
                        \cup Uses(statements[i].true_branch)
                        \cup Uses(statements[i].false_branch)
                        \cup Uses(statements[i].phi_functions)
             [] statements[i].k = "SSAWhile" ->
                    find_used_vars(statements[i].condition)
                        \cup Uses(statements[i].phi_functions)
                        \cup Uses(statements[i].body)
             [] statements[i].k = "list" -> Uses(statements[i].items)
             [] OTHER -> {}
           : i \in DOMAIN statements}

Kept(statements, kinds) == SelectSeq(statements, LAMBDA stmt : stmt.k \in kinds)

(***************************************************************************)
(* C24: dead_code_elimination removes a declaration or an assignment only  *)
(* if its (name, version) is used nowhere in the program: in no            *)
(* right-hand side, If condition, assert condition or Phi source list, at  *)
(* any nesting depth; If and Assert statements are never removed.          *)
(***************************************************************************)
C24_OnlyUnusedDefinitionsRemoved ==
    pc = "optimized" /\ optimizations = {"Dead Code Elimination"} =>
        /\ \A i \in DOMAIN unrolled.statements :
                LET stmt == unrolled.statements[i]
                IN /\ stmt.k \in {"SSAVarDecl", "SSAAssignment"}
                   /\ <<stmt.name, stmt.version>> \in Uses(unrolled.statements)
                   => \E j \in DOMAIN optimized.statements :
                            optimized.statements[j] = stmt
        /\ Kept(optimized.statements, {"SSAIf", "SSAAssert"})
                = Kept(unrolled.statements, {"SSAIf", "SSAAssert"})

\* The entry the dict gets from a top-level declaration or assignment of
\* the output: the string of its rewritten right-hand side and its target.
TableEntries(statements) ==
    {[str |-> expr_to_string(statements[i].value), name |-> statements[i].name,
      version |-> statements[i].version] :
        i \in {j \in DOMAIN statements :
                    statements[j].k \in {"SSAVarDecl", "SSAAssignment"}}}

\* The expressions expr may become when a unary or binary expression is
\* replaced only by the target of an entry of table that has its string.
RECURSIVE Rewritings(_, _)
Rewritings(expr, table) ==
    LET kept == CASE expr.k = "SSABinaryOp" ->
                        {SSABinaryOp(l, expr.op, r) :
                            l \in Rewritings(expr.left, table),
                            r \in Rewritings(expr.right, table)}
                  [] expr.k = "SSAUnaryOp" ->
                        {SSAUnaryOp(expr.op, e) : e \in Rewritings(expr.expr, table)}
                  [] OTHER -> {expr}
        matching == {t \in table : \E e \in kept : expr_to_string(e) = t.str}
    IN IF expr.k \in {"SSABinaryOp", "SSAUnaryOp"}
       THEN kept \cup {SSAVariable(t.name, t.version) : t \in matching}
       ELSE kept

\* after is before with its expressions rewritten from table; at the top
\* level the table of a statement holds the entries of the statements
\* before it, in a branch or a body it is the table of the enclosing
\* top-level statement.
RECURSIVE RewrittenFrom(_, _, _, _)
RewrittenFrom(before, after, table, top) ==
    /\ Len(before) = Len(after)
    /\ \A i \in DOMAIN before :
        LET old == before[i]
            new == after[i]
            known == IF top THEN table \cup TableEntries(SubSeq(after, 1, i - 1))
                     ELSE table
        IN CASE old.k \in {"SSAVarDecl", "SSAAssignment"} ->
                    /\ new.k = old.k /\ new.name = old.name /\ new.version = old.version
                    /\ new.value \in Rewritings(old.value, known)
             [] old.k = "SSAAssert" ->
                    /\ new.k = old.k
                    /\ new.condition \in Rewritings(old.condition, known)
             [] old.k = "SSAIf" ->
                    /\ new.k = old.k
                    /\ new.condition \in Rewritings(old.condition, known)
                    /\ RewrittenFrom(old.true_branch, new.true_branch, known, FALSE)
                    /\ RewrittenFrom(old.false_branch, new.false_branch, known, FALSE)
                    /\ new.phi_functions = old.phi_functions
             [] OTHER -> new = old

(***************************************************************************)
(* C25: common_subexpression_elimination replaces a unary or binary        *)
(* expression by a variable only when the variable is the target of an     *)
(* earlier top-level declaration or assignment whose rewritten right-hand  *)
(* side has the same string; the targets of definitions inside the         *)
(* branches of an If are never in the table and never replace anything.    *)
(***************************************************************************)
C25_ReplacedOnlyByEarlierTopLevelTarget ==
    pc = "optimized" /\ optimizations = {"Common Subexpression Elimination"} =>
        RewrittenFrom(unrolled.statements, optimized.statements, {}, TRUE)

\* The pass has replaced an expression of a program that holds an If.
C25_Witness ==
    /\ pc = "optimized"
    /\ optimizations = {"Common Subexpression Elimination"}
    /\ optimized.statements # unrolled.statements
    /\ \E i \in DOMAIN unrolled.statements :
            /\ unrolled.statements[i].k = "SSAIf"
            /\ TableEntries(unrolled.statements[i].true_branch) # {}

\* The statements without the Assert statements, at every nesting level.
RECURSIVE WithoutAsserts(_)
WithoutAsserts(statements) ==
    IF statements = << >> THEN << >>
    ELSE LET stmt == Head(statements)
             this == CASE stmt.k = "SSAAssert" -> << >>
                       [] stmt.k = "SSAIf" ->
                            <<[stmt EXCEPT !.true_branch = WithoutAsserts(@),
                                           !.false_branch = WithoutAsserts(@)]>>
                       [] stmt.k = "SSAWhile" ->
                            <<[stmt EXCEPT !.body = WithoutAsserts(@)]>>
                       [] OTHER -> <<stmt>>
         IN this \o WithoutAsserts(Tail(statements))

(***************************************************************************)
(* C26: in an equivalence run, as in a verification run, an Assert of      *)
(* either program (the Assert(not c) that unrolling puts after a loop      *)
(* included) is not added to the background constraints of the             *)
(* equivalence query: the constraints are those of the two programs        *)
(* without their Assert statements.                                        *)
(***************************************************************************)
C26_AssertIsNotBackground ==
    pc = "optimized" =>
        eq_encode(optimized, optimized2).solver
            = eq_encode([optimized EXCEPT !.statements = WithoutAsserts(@)],
                        [optimized2 EXCEPT !.statements = WithoutAsserts(@)]).solver

(***************************************************************************)
(* The equivalence predicate of generate_equivalence_smt (smt.py:351-364)  *)
(* and of check_equivalence (smt.py:772-785).  Both functions fill         *)
(* variables1 and variables2 in the same way and collect the same names    *)
(* as outputs, so both are read from the encoding enc of eq_encode.        *)
(***************************************************************************)
\* max([int(m.group(1)) for ... variables.keys() if m], default=0): the
\* highest version among the constants of the dict with this base name.
var_highest(variables, var_name) ==
    LET versions == {variables[i].version :
                        i \in {j \in DOMAIN variables : variables[j].name = var_name}}
    IN IF versions = {} THEN 0
       ELSE CHOOSE v \in versions : \A w \in versions : w <= v

\* smt.py:351-364: the equalities generate_equivalence_smt renders.
generated_equivalence_constraints(enc, common_outputs) ==
    LET c[i \in 0..Len(common_outputs)] ==
            IF i = 0 THEN << >>
            ELSE LET var_name == common_outputs[i]
                     var1_highest == var_highest(enc.variables1, var_name)
                     var2_highest == var_highest(enc.variables2, var_name)
                 IN IF var1_highest > 0 /\ var2_highest > 0
                    THEN Append(c[i - 1],
                                Z3App("==", Z3Int("", var_name, var1_highest),
                                      Z3Int("p2_", var_name, var2_highest)))
                    ELSE c[i - 1]
    IN c[Len(common_outputs)]

\* smt.py:772-785: the equalities check_equivalence negates.
equivalence_constraints(enc, common_outputs) ==
    [i \in DOMAIN common_outputs |->
        Z3App("==", output_var1(enc, common_outputs[i]),
              output_var2(enc, common_outputs[i]))]

(***************************************************************************)
(* C27: the equivalence predicate generate_equivalence_smt renders agrees  *)
(* with the one check_equivalence checks: for every base name written in   *)
(* both programs, names whose highest version is 0 included, it holds the  *)
(* equality of the highest version of program 1 and the highest version    *)
(* of program 2, and it holds no other equality.                           *)
(***************************************************************************)
C27_RenderedPredicateIsChecked ==
    pc = "optimized" =>
        \A set_order \in SetOrders(ProgramNames(ast) \cup ProgramNames(ast2)) :
            LET enc == eq_encode(optimized, optimized2)
                common_outputs ==
                    SetIteration(DOMAIN enc.output_vars1 \cap DOMAIN enc.output_vars2,
                                 set_order)
            IN generated_equivalence_constraints(enc, common_outputs)
                    = equivalence_constraints(enc, common_outputs)

\* The assertions of enc whose negation is satisfiable with the program
\* constraints (smt.py:546-557), by their place in the list.
FailingAssertions(enc) ==
    {i \in DOMAIN enc.assertions :
        Models(Append(enc.solver, Z3Not(enc.assertions[i]))) # {}}

(***************************************************************************)
(* C28: when check_assertion reports a second counterexample after exactly *)
(* one assertion failed, the blocking clause has excluded the first: the   *)
(* second counterexample differs from the first in the reported value of   *)
(* at least one base variable, and it falsifies the assertion the first    *)
(* one falsified.                                                          *)
(***************************************************************************)
C28_SecondCounterexampleIsNew ==
    /\ Done
    /\ Len(result.counterexamples) = 2
    /\ Cardinality(FailingAssertions(encode(optimized))) = 1
    => /\ result.counterexamples[2] # result.counterexamples[1]
       /\ \A i \in FailingAssertions(encode(optimized)) :
            /\ ~Eval(encode(optimized).assertions[i], models[2])
            /\ ~Eval(encode(optimized).assertions[i], models[3])

(***************************************************************************)
(* parse_program on single asserts over flat expressions: up to MaxOperands*)
(* operands joined by binary operators, one operand at most under a unary  *)
(* operator.                                                               *)
(***************************************************************************)
MaxOperands == 4

\* The declaration precedence (parser.py:264-273): the level of each binary
\* operator, lowest first.
precedence ==
    ("or" :> 1) @@ ("and" :> 2) @@ ("==" :> 3) @@ ("!=" :> 3) @@ ("<" :> 4)
        @@ (">" :> 4) @@ ("<=" :> 4) @@ (">=" :> 4) @@ ("+" :> 5) @@ ("-" :> 5)
        @@ ("*" :> 6) @@ ("/" :> 6) @@ ("%" :> 6)

\* One binary operator of each level.
BinaryOperators == {"or", "and", "==", "<", "+", "*"}

UnaryOperators == {"not", "-"}

Operands == <<"x", "1", "y", "z", "2">>

\* An expression: its operators in order, and the operand under a unary
\* operator (0: none).
Expressions ==
    UNION {[ops : [1..(n - 1) -> BinaryOperators], at : {0}, unary : {"-"}]
            \cup [ops : [1..(n - 1) -> BinaryOperators], at : 1..n,
                  unary : UnaryOperators]
           : n \in 2..MaxOperands}

\* The lexemes of operand i of the expression.
OperandText(e, i) == IF e.at = i THEN <<e.unary, Operands[i]>> ELSE <<Operands[i]>>

RECURSIVE ExpressionText(_, _)
ExpressionText(e, i) ==
    IF i > Len(e.ops) THEN OperandText(e, i)
    ELSE OperandText(e, i) \o <<e.ops[i]>> \o ExpressionText(e, i + 1)

ExpressionTexts == {<<"assert">> \o ExpressionText(e, 1) \o <<";">> : e \in Expressions}

\* The tree of operands lo..hi of the expression when the operators group
\* by level, those of one level from the left, and a unary operator takes
\* the one operand that follows it.
RECURSIVE Grouped(_, _, _)
Grouped(e, lo, hi) ==
    IF lo = hi
    THEN IF e.at = lo THEN UnaryOp(e.unary, p_atomic(lexer(<<Operands[lo]>>), 1).node)
         ELSE p_atomic(lexer(<<Operands[lo]>>), 1).node
    ELSE LET lowest == CHOOSE k \in lo..(hi - 1) :
                            \A j \in lo..(hi - 1) :
                                \/ precedence[e.ops[j]] > precedence[e.ops[k]]
                                \/ precedence[e.ops[j]] = precedence[e.ops[k]] /\ j <= k
         IN BinaryOp(Grouped(e, lo, lowest), e.ops[lowest], Grouped(e, lowest + 1, hi))

InitExpr ==
    /\ pc = "start"
    /\ code \in ExpressionTexts
    /\ ast = << >>
    /\ depth = 0
    /\ optimizations = {}
    /\ ssa = NoProgram
    /\ unrolled = NoProgram
    /\ optimized = NoProgram
    /\ result = NoResult
    /\ models = << >>
    /\ ast2 = << >>
    /\ ssa2 = NoProgram
    /\ unrolled2 = NoProgram
    /\ optimized2 = NoProgram

NextExpr == Parse

SpecExpr == InitExpr /\ [][NextExpr]_vars

(***************************************************************************)
(* C29: parse_program builds expression trees with the precedence (low to  *)
(* high) or, and, equality, relational, additive, multiplicative, unary:   *)
(* x + 1 < y parses as (x + 1) < y, x < 1 and y < z as (x < 1) and (y < z),*)
(* and a unary - or not applies only to the operand that follows it.       *)
(***************************************************************************)
C29_PrecedenceOfExpressions ==
    pc # "start" =>
        \A e \in Expressions :
            code = <<"assert">> \o ExpressionText(e, 1) \o <<";">> =>
                /\ pc = "parsed"
                /\ ast = <<AssertStmt(Grouped(e, 1, Len(e.ops) + 1))>>

\* A While at any depth inside the body of a While.
RECURSIVE LoopInLoop(_)
LoopInLoop(statements) ==
    \E i \in DOMAIN statements :
        \/ /\ statements[i].k = "SSAWhile"
           /\ "SSAWhile" \in StatementKinds(statements[i].body)
        \/ /\ statements[i].k = "SSAIf"
           /\ \/ LoopInLoop(statements[i].true_branch)
              \/ LoopInLoop(statements[i].false_branch)

\* What check_assertion derives from a program, as sets: the constraints
\* of the solver, the obligations, and the verdicts it can return.
Derived(program) ==
    [constraints |-> {encode(program).solver[i] : i \in DOMAIN encode(program).solver},
     obligations |->
        {encode(program).assertions[i] : i \in DOMAIN encode(program).assertions},
     verdicts |-> Verdicts(program)]

(***************************************************************************)
(* C30: for a program with no nested loops, the constraint set and the set *)
(* of obligations that check_assertion derives from unroll_loops(ssa, d)   *)
(* are the same for every depth d >= 1, and so is the verdict.             *)
(***************************************************************************)
C30_DepthDoesNotMatter ==
    pc = "unrolled" /\ depth >= 1 /\ ~LoopInLoop(ssa.statements) =>
        \A d \in 1..(MaxDepth + 1) :
            /\ Derived(unroll_loops(ssa, d)) = Derived(unrolled)
            /\ \A i \in DOMAIN ssa.statements :
                    ssa.statements[i].k = "SSAWhile" =>
                        unroll_statements(<<ssa.statements[i]>>, d)
                            = [j \in 1..d |->
                                    SSAIf(ssa.statements[i].condition,
                                          ssa.statements[i].phi_functions
                                              \o ssa.statements[i].body,
                                          << >>, << >>)]
                                \o <<SSAAssert(SSAUnaryOp("not",
                                                ssa.statements[i].condition))>>

\* A loop has been unrolled to two copies or more.
C30_Witness ==
    /\ pc = "unrolled"
    /\ depth >= 2
    /\ ~LoopInLoop(ssa.statements)
    /\ "SSAWhile" \in StatementKinds(ssa.statements)
    /\ Cardinality({i \in DOMAIN unrolled.statements :
                        unrolled.statements[i].k = "SSAIf"}) >= 2

====
